---------------------------- MODULE Spec2Model ----------------------------
(***************************************************************************)
(* A model of the multi-factor credential derivation pipeline of           *)
(* nfc-github-2-factor: the Chaos Vault (nesdr_chaos_generator.py) and the *)
(* dual-scan unlock scripts (dual_nfc_unlock_system.py,                    *)
(* zero_knowledge_nfc_auth.py, real_ambient_zero_knowledge_auth.py,        *)
(* complete_zero_knowledge_workflow.py, dual_nfc_github_auth.py,           *)
(* usb_nfc_github_auth.py).                                                *)
(*                                                                         *)
(* Hashes, key derivations and authenticated encryption are modelled       *)
(* symbolically: a digest is the tuple of its inputs (so two digests are   *)
(* equal exactly when their inputs are), and a Fernet token opens only     *)
(* under the key that made it.                                             *)
(***************************************************************************)
EXTENDS Integers, Sequences, FiniteSets, TLC

(***************************************************************************)
(* Bounds of the model.                                                    *)
(***************************************************************************)
\* how many chaos values are generated in one behaviour
MaxValues == 3
\* how many get_next_value calls one process makes between two refills
MaxCalls == 4
\* how many values are handed out in one behaviour
MaxIssued == 4
\* processes working on the same .chaos_vault file
NumProcs == 2

(***************************************************************************)
(* Program constants.                                                      *)
(***************************************************************************)
\* get_next_value's None
EMPTY == 0
\* no get_next_value call has returned yet
NoCall == -1
\* len(frequencies) in generate_chaos_value
NumFrequencies == 5
\* hashlib.sha512().digest() length, the bytes one capture adds to the pool
DigestBytes == 64
\* the least entropy generate_chaos_value accepts
MinEntropyBytes == 64

Procs == 1..NumProcs
Values == 1..MaxValues

VARIABLES
    \* ---- Chaos Vault ----
    vault_file,      \* the pickled .chaos_vault file
    chaos_values,    \* self.chaos_values of each process
    generated,       \* how many chaos values have been derived so far
    lastRet,         \* what each process's last get_next_value returned
    lastSaveOk,      \* whether the save_vault of that call wrote the file
    calls,           \* get_next_value calls of a process since its list was last refilled
    got,             \* how many of those calls returned a value
    base,            \* the length of the list when it was last refilled
    issued,          \* every value get_next_value has returned, in order, with its process
    \* ---- Dual-scan unlock ----
    pack,            \* the persisted authentication bundle and the files beside it
    enrolled_tag,    \* the tag presented when the bundle was sealed
    pc,              \* where the authentication run stands
    nfc_hash1,       \* the digest the first scan of the run returned
    nfc_hash2,       \* the digest the second scan of the run returned
    unlocked,        \* the ambient data the run has decrypted or verified
    secret,          \* the secret material the run has derived
    scans,           \* how many scans the run has requested
    used_pack,       \* the bundle as the run loaded it
    \* ---- Integrity verification ----
    sealed_file,     \* the bundle's files as enrollment wrote them
    checked_file,    \* the bundle's files as verify_pack_integrity last read them
    integrity_valid, \* what that verification returned
    mismatch_seen,   \* a verification has reported a mismatch since enrollment
    \* ---- Key derivation ----
    derived,         \* the runs of the key generators: factors, seed and key pair
    \* ---- Hardware fingerprints ----
    drives,          \* what each physical drive reports: hardware and current volume
    fp_prev,         \* the fingerprint call before the last one
    fp_last,         \* the last fingerprint call: function, drive, outcome, result
    \* ---- Device binding ----
    bundle,          \* the sealed bundle and the drive its files lie on
    auth,            \* the last authentication run over the bundle
    \* ---- Tag scan ----
    scanner,         \* the scan routine in progress: its read and the time it has waited
    \* ---- Scan session: terminal, alarm, console ----
    session,         \* one call of a scan routine: what was typed, shown and returned, and its alarm
    \* ---- Log and console lines ----
    emitted,         \* what the last calls of the logging functions logged and printed, per call
    \* ---- Entropy collection ----
    radio,           \* the receiver, the two collectors' handles on it and what the last call gave its caller
    \* ---- Loading the vault file ----
    vault_on_disk,   \* the .chaos_vault file the three programs share
    loader,          \* the object that loads it: its class, its list and how its last call ended
    \* ---- the pack file and its maintenance tools ----
    usb_files,       \* the pack file on the drive and the copies the tools keep of it
    pack_run,        \* the program that ran last on the drive and how it ended
    \* ---- sealing and verifying the pack ----
    seal_disk,       \* the pack file and the integrity file on the drive
    seal_check,      \* the verification that ran last
    \* ---- writing a value to a tag ----
    writer_values,   \* the writer's chaos_values
    writer_file,     \* the vault file the writer loaded and saves
    tag_block,       \* what the blocks of the tag on the reader hold
    attempt,         \* the call of test_write_chaos that ended last
    \* ---- the mobiled guardian's monitoring ----
    monitoring_active, \* self.monitoring_active
    monitor_thread,  \* self.monitor_thread: 0 for None, else the thread's number
    threads,         \* the monitoring threads started so far: where each one is
    menu_pc,         \* where the menu's thread is
    \* ---- the mobiled guardian's authorization ----
    auth_file,       \* mobiled_nfc_auth.json
    clock,           \* time.time(), in seconds since the guardian was started
    mobiled_auth     \* the guardian call that returned last

vaultVars == <<vault_file, chaos_values, generated, lastRet, lastSaveOk,
               calls, got, base, issued>>

unlockVars == <<pack, enrolled_tag, pc, nfc_hash1, nfc_hash2, unlocked, secret,
                scans, used_pack>>

integrityVars == <<sealed_file, checked_file, integrity_valid, mismatch_seen>>

deriveVars == <<derived>>

fingerprintVars == <<drives, fp_prev, fp_last>>
bindingVars == <<bundle, auth>>
scanVars == <<scanner>>
sessionVars == <<session>>
logVars == <<emitted>>
radioVars == <<radio>>
loadVars == <<vault_on_disk, loader>>
packfileVars == <<usb_files, pack_run>>
sealVars == <<seal_disk, seal_check>>
writeVars == <<writer_values, writer_file, tag_block, attempt>>
monitorVars == <<monitoring_active, monitor_thread, threads, menu_pc>>
mobiledVars == <<auth_file, clock, mobiled_auth>>

vars == <<vault_file, chaos_values, generated, lastRet, lastSaveOk,
          calls, got, base, issued,
          pack, enrolled_tag, pc, nfc_hash1, nfc_hash2, unlocked, secret,
          scans, used_pack,
          sealed_file, checked_file, integrity_valid, mismatch_seen,
          derived,
          drives, fp_prev, fp_last,
          bundle, auth,
          scanner,
          session,
          emitted,
          radio,
          vault_on_disk, loader,
          usb_files, pack_run,
          seal_disk, seal_check,
          writer_values, writer_file, tag_block, attempt,
          monitoring_active, monitor_thread, threads, menu_pc,
          auth_file, clock, mobiled_auth>>

\* the variables of the later sections
extVars == <<sessionVars, logVars, radioVars, loadVars, packfileVars, sealVars, writeVars, monitorVars, mobiledVars>>
sessionOthers == <<logVars, radioVars, loadVars, packfileVars, sealVars, writeVars, monitorVars, mobiledVars>>
logOthers == <<sessionVars, radioVars, loadVars, packfileVars, sealVars, writeVars, monitorVars, mobiledVars>>
radioOthers == <<sessionVars, logVars, loadVars, packfileVars, sealVars, writeVars, monitorVars, mobiledVars>>
loadOthers == <<sessionVars, logVars, radioVars, packfileVars, sealVars, writeVars, monitorVars, mobiledVars>>
packfileOthers == <<sessionVars, logVars, radioVars, loadVars, sealVars, writeVars, monitorVars, mobiledVars>>
sealOthers == <<sessionVars, logVars, radioVars, loadVars, packfileVars, writeVars, monitorVars, mobiledVars>>
writeOthers == <<sessionVars, logVars, radioVars, loadVars, packfileVars, sealVars, monitorVars, mobiledVars>>
monitorOthers == <<sessionVars, logVars, radioVars, loadVars, packfileVars, sealVars, writeVars, mobiledVars>>
mobiledOthers == <<sessionVars, logVars, radioVars, loadVars, packfileVars, sealVars, writeVars, monitorVars>>

\* what the chaos vault's operations leave alone
VaultFrame == UNCHANGED <<unlockVars, integrityVars, deriveVars, fingerprintVars, bindingVars, scanVars,
              extVars>>

(***************************************************************************)
(* Chaos Vault: nesdr_chaos_generator.py                                   *)
(***************************************************************************)
NoFile == [kind |-> "none", count |-> 0, values |-> <<>>]
CorruptFile == [kind |-> "corrupt", count |-> 0, values |-> <<>>]

\* vault_data of save_vault: the count and the list
VaultData(list) == [kind |-> "ok", count |-> Len(list), values |-> list]

\* the outcomes of the write in save_vault: the dump succeeds, open() raises
\* (the file is untouched), or the dump raises after open(.., 'wb') truncated it
SaveOutcomes == {"ok", "open_failed", "write_failed"}

\* the file save_vault leaves behind
FileAfterSave(file, list, outcome) ==
    CASE outcome = "ok" -> VaultData(list)
      [] outcome = "open_failed" -> file
      [] outcome = "write_failed" -> CorruptFile

\* what get_next_value hands to its caller after popping `value`; save_vault's
\* return value is not consulted
Returned(value, saved) == value

\* the list get_next_value keeps after taking the first value
PeekRemaining(list) == list
Remaining(list) == Tail(list)

\* the ghost counters of a process whose list was just refilled to `list`
Refill(p, list) ==
    /\ calls' = [calls EXCEPT ![p] = 0]
    /\ got' = [got EXCEPT ![p] = 0]
    /\ base' = [base EXCEPT ![p] = Len(list)]

\* __init__ of a fresh process (a restart): an empty list, nothing loaded
Restart(p) ==
    /\ chaos_values' = [chaos_values EXCEPT ![p] = <<>>]
    /\ Refill(p, <<>>)
    /\ UNCHANGED <<vault_file, generated, lastRet, lastSaveOk, issued>>
    /\ VaultFrame

\* generate_chaos_value: `captured` of the five bands returned entropy
GenerateChaosValue(p, captured) ==
    /\ generated < MaxValues
    /\ IF captured * DigestBytes < MinEntropyBytes
       THEN UNCHANGED <<chaos_values, generated, calls, got, base>>
       ELSE /\ chaos_values' = [chaos_values EXCEPT ![p] = Append(@, generated + 1)]
            /\ generated' = generated + 1
            /\ Refill(p, Append(chaos_values[p], generated + 1))
    /\ UNCHANGED <<vault_file, lastRet, lastSaveOk, issued>>
    /\ VaultFrame

\* save_vault
SaveVault(p, outcome) ==
    /\ vault_file' = FileAfterSave(vault_file, chaos_values[p], outcome)
    /\ UNCHANGED <<chaos_values, generated, lastRet, lastSaveOk, calls, got, base, issued>>
    /\ VaultFrame

\* load_vault: a missing or unreadable file leaves the list as it is
LoadVault(p) ==
    /\ IF vault_file.kind = "ok"
       THEN /\ chaos_values' = [chaos_values EXCEPT ![p] = vault_file.values]
            /\ Refill(p, vault_file.values)
       ELSE UNCHANGED <<chaos_values, calls, got, base>>
    /\ UNCHANGED <<vault_file, generated, lastRet, lastSaveOk, issued>>
    /\ VaultFrame

\* get_next_value
GetNextValue(p, outcome) ==
    /\ calls[p] < MaxCalls
    /\ calls' = [calls EXCEPT ![p] = @ + 1]
    /\ IF chaos_values[p] = <<>>
       THEN /\ lastRet' = [lastRet EXCEPT ![p] = EMPTY]
            /\ UNCHANGED <<chaos_values, vault_file, lastSaveOk, got, issued>>
       ELSE LET value == Head(chaos_values[p])
                rest == Remaining(chaos_values[p])
                ret == Returned(value, outcome = "ok")
            IN  /\ Len(issued) < MaxIssued
                /\ chaos_values' = [chaos_values EXCEPT ![p] = rest]
                /\ vault_file' = FileAfterSave(vault_file, rest, outcome)
                /\ lastSaveOk' = [lastSaveOk EXCEPT ![p] = (outcome = "ok")]
                /\ lastRet' = [lastRet EXCEPT ![p] = ret]
                /\ got' = [got EXCEPT ![p] = IF ret # EMPTY THEN @ + 1 ELSE @]
                /\ issued' = IF ret # EMPTY THEN Append(issued, <<p, ret>>) ELSE issued
    /\ UNCHANGED <<generated, base>>
    /\ VaultFrame

\* main, choice 3: clear the list and save
ClearVault(p, outcome) ==
    /\ chaos_values[p] # <<>>
    /\ chaos_values' = [chaos_values EXCEPT ![p] = <<>>]
    /\ vault_file' = FileAfterSave(vault_file, <<>>, outcome)
    /\ Refill(p, <<>>)
    /\ UNCHANGED <<generated, lastRet, lastSaveOk, issued>>
    /\ VaultFrame

InitVault ==
    /\ vault_file = NoFile
    /\ chaos_values = [p \in Procs |-> <<>>]
    /\ generated = 0
    /\ lastRet = [p \in Procs |-> NoCall]
    /\ lastSaveOk = [p \in Procs |-> FALSE]
    /\ calls = [p \in Procs |-> 0]
    /\ got = [p \in Procs |-> 0]
    /\ base = [p \in Procs |-> 0]
    /\ issued = <<>>

(***************************************************************************)
(* Dual-scan unlock: symbolic data and cryptography                        *)
(***************************************************************************)
Tags == {"TAG-A", "TAG-B"}
Ambients == {"room-noise", "street-noise"}
Devices == {"usb-1", "usb-2"}

\* Python's None, also what a failed decryption or an aborted scan yields
None == [none |-> TRUE]
\* the contents of a data file
Bytes(content) == [bytes |-> content]
\* a persisted field after a byte of it was changed
Tampered(value) == IF DOMAIN value = {"bytes"} THEN Bytes("tampered") ELSE [garbage |-> TRUE]

\* hashlib.sha256(tag_data.encode()).hexdigest()
Sha256Tag(tag) == [tag_sha256 |-> tag]
\* hashlib.sha256(data).hexdigest() of a file's bytes
Sha256Bytes(data) == [bytes_sha256 |-> data]
\* hashlib.sha256(f"{a}{b}".encode()).hexdigest() of two hex digests
Sha256Pair(a, b) == [pair_sha256 |-> <<a, b>>]
\* PBKDF2HMAC(salt=..).derive(material)
Pbkdf2(salt, material) == [salt |-> salt, material |-> material]

\* Fernet(key).encrypt(plain)
FernetEncrypt(key, plain) == [key |-> key, plain |-> plain]
\* a cipher that hands back the plaintext whatever the key
DecryptAnyKey(key, token) ==
    IF DOMAIN token = {"key", "plain"} THEN token.plain ELSE None
\* Fernet(key).decrypt(token): InvalidToken (None here) under another key or
\* for a token that was changed
FernetDecrypt(key, token) ==
    IF DOMAIN token = {"key", "plain"} /\ token.key = key THEN token.plain ELSE None

\* what the reader delivers for one scan: a tag's line, an empty line, or
\* nothing (the operator interrupts, or the alarm fires)
ScanInputs == Tags \cup {"", "cancel"}

\* invisible_scan_simple / invisible_nfc_scan: the digest of a non-empty
\* line, None otherwise
InvisibleScan(input) == IF input \in Tags THEN Sha256Tag(input) ELSE None

NoPack == [kind |-> "none"]

\* the locals of a run that has just begun
BeginRun(next_pc) ==
    /\ pc' = next_pc
    /\ nfc_hash1' = None
    /\ nfc_hash2' = None
    /\ unlocked' = None
    /\ secret' = None
    /\ scans' = 0
    /\ used_pack' = pack

\* no run is in progress: the process of the last one has exited
NoRun ==
    /\ pc' = "idle"
    /\ nfc_hash1' = None
    /\ nfc_hash2' = None
    /\ unlocked' = None
    /\ secret' = None
    /\ scans' = 0
    /\ used_pack' = NoPack

\* a run returns without secret material
Fail ==
    /\ pc' = "done"
    /\ secret' = None

UnlockFrame == UNCHANGED <<vaultVars, integrityVars, deriveVars, fingerprintVars, bindingVars, scanVars,
              extVars>>

\* what enrollment and verification of a sealed pack leave alone
IntegrityFrame == UNCHANGED <<vaultVars, deriveVars, fingerprintVars, bindingVars, scanVars,
              extVars>>

(***************************************************************************)
(* Hardware fingerprints: usb_hardware_binding.py,                         *)
(* usb_origin_capture_system.py, usb_pack_ssh_keygen.py,                   *)
(* location_bound_auth.py                                                  *)
(***************************************************************************)
MaxFormats == 1

VolumeNames == {"USB", "SILVER"}
Ports == {"port-1", "port-2"}

\* no drive is attached
NoDrive == [attached |-> FALSE]

\* a drive of the one model on sale, as it leaves the factory: the serial
\* number it reports (none for "") and the volume it was formatted with
FactoryDrive(device, serial_number) ==
    [attached |-> TRUE,
     product_id |-> "0x5581",
     vendor_id |-> "0x0781",
     manufacturer |-> "SanDisk",
     media_name |-> "Ultra USB 3.0 Media",
     capacity |-> "32 GB",
     serial_number |-> serial_number,
     formats |-> 0,
     volume_uuid |-> [formatted_on |-> device, format |-> 0],
     volume_name |-> "USB",
     filesystem |-> "MS-DOS FAT32"]

\* the serial numbers a drive may report: none, or its own
SerialNumbers(device) == {"", IF device = "usb-1" THEN "SN-0001" ELSE "SN-0002"}

\* the mount point of a volume: /Volumes/<name>
MountPoint(drive) == [volumes |-> drive.volume_name]

\* what a fingerprint call hands to its caller: the digest (or None), whether
\* what is returned marks it as a fallback, and whether the caller is left
\* with an exception instead
FingerprintResult(fingerprint, flagged, raised) ==
    [fingerprint |-> fingerprint, flagged |-> flagged, raised |-> raised]

\* USBHardwareBinding.parse_usb_device_info / extract_hardware_identifiers:
\* the identifiers system_profiler lists for the drive when it is the only
\* one plugged in; a drive without a serial number has no 'Serial Number:'
\* line, which create_hardware_fingerprint reads as ''
HardwareIds(drive, port) ==
    [product_id |-> drive.product_id,
     vendor_id |-> drive.vendor_id,
     serial_number |-> drive.serial_number,
     manufacturer |-> drive.manufacturer,
     capacity |-> drive.capacity,
     location_id |-> port]

\* USBHardwareBinding.create_hardware_fingerprint: identifiers that are
\* missing count as ''; location id and BSD name are left out
create_hardware_fingerprint(hardware_ids) ==
    IF hardware_ids = None
    THEN FingerprintResult(None, FALSE, FALSE)
    ELSE FingerprintResult(
             [hardware_sha256 |->
                 [product_id |-> hardware_ids.product_id,
                  vendor_id |-> hardware_ids.vendor_id,
                  serial_number |-> hardware_ids.serial_number,
                  manufacturer |-> hardware_ids.manufacturer,
                  capacity |-> hardware_ids.capacity]],
             FALSE, FALSE)

\* the outcomes of running `diskutil info`: its report, an error message
\* without the report's lines, or subprocess.run raising
DiskutilOutcomes == {"ok", "diskutil_error", "run_raises"}

\* the digest of what create_usb_fingerprint collects from `diskutil info`
UsbInfoDigest(drive, outcome) ==
    CASE outcome = "ok" ->
            [usb_info_sha256 |->
                [volume_uuid |-> drive.volume_uuid,
                 device_name |-> drive.media_name,
                 total_size |-> drive.capacity,
                 filesystem |-> drive.filesystem,
                 mount_point |-> MountPoint(drive)]]
      [] outcome = "diskutil_error" ->
            [usb_info_sha256 |-> [mount_point |-> MountPoint(drive)]]
      [] outcome = "run_raises" ->
            [fallback_sha256 |-> [mount_point |-> MountPoint(drive), fallback |-> TRUE,
                                  timestamp |-> "time of the call"]]

\* USBOriginCaptureSystem.create_usb_fingerprint: returns the digest and the
\* dictionary it was made from; only the except branch's dictionary has
\* 'fallback'
create_usb_fingerprint(drive, outcome) ==
    FingerprintResult(UsbInfoDigest(drive, outcome), outcome = "run_raises", FALSE)

\* USBPackSSHKeyGen.create_current_usb_fingerprint: returns the digest alone
create_current_usb_fingerprint(drive, outcome) ==
    FingerprintResult(UsbInfoDigest(drive, outcome), FALSE, FALSE)

\* the outcomes of `system_profiler SPUSBDataType -json`: the drive is
\* listed, it is not listed, the tool exits non-zero, or the call raises
ProfilerOutcomes == {"ok", "not_found", "profiler_error", "run_raises"}

\* location_bound_auth.get_usb_hardware_fingerprint as seen by a caller that
\* unpacks two values: a non-zero exit returns a bare None, which the
\* unpacking turns into a TypeError
get_usb_hardware_fingerprint(drive, port, outcome) ==
    CASE outcome = "ok" ->
            FingerprintResult(
                [fingerprint_sha256 |->
                    [product_id |-> drive.product_id,
                     vendor_id |-> drive.vendor_id,
                     serial_num |-> IF drive.serial_number = ""
                                    THEN "unknown" ELSE drive.serial_number,
                     manufacturer |-> drive.manufacturer,
                     location_id |-> port,
                     volume_name |-> drive.volume_name,
                     mount_point |-> MountPoint(drive)]],
                FALSE, FALSE)
      [] outcome = "not_found" ->
            FingerprintResult(
                [fingerprint_sha256 |->
                    [volume_name |-> drive.volume_name,
                     mount_point |-> MountPoint(drive),
                     fallback |-> TRUE]],
                TRUE, FALSE)
      [] outcome = "profiler_error" -> FingerprintResult(None, FALSE, TRUE)
      [] outcome = "run_raises" -> FingerprintResult(None, FALSE, FALSE)

NoFingerprint == [taken |-> FALSE]

\* a fingerprint call is recorded, the one before it is kept
Record(fn, device, outcome, result) ==
    /\ fp_prev' = fp_last
    /\ fp_last' = [taken |-> TRUE, fn |-> fn, device |-> device,
                   outcome |-> outcome, result |-> result]

FingerprintFrame ==
    UNCHANGED <<vaultVars, unlockVars, integrityVars, deriveVars, bindingVars, scanVars, extVars>>

\* a drive is plugged in for the first time
Attach(device, serial_number) ==
    /\ drives[device] = NoDrive
    /\ drives' = [drives EXCEPT ![device] = FactoryDrive(device, serial_number)]
    /\ UNCHANGED <<fp_prev, fp_last>>
    /\ FingerprintFrame

\* the drive is wiped and formatted again: the volume gets a new UUID and
\* the name and file system the operator chooses
Reformat(device, volume_name, filesystem) ==
    /\ drives[device] # NoDrive
    /\ drives[device].formats < MaxFormats
    /\ drives' = [drives EXCEPT ![device] =
                     [@ EXCEPT !.formats = @ + 1,
                               !.volume_uuid = [formatted_on |-> device,
                                                format |-> drives[device].formats + 1],
                               !.volume_name = volume_name,
                               !.filesystem = filesystem]]
    /\ UNCHANGED <<fp_prev, fp_last>>
    /\ FingerprintFrame

\* usb_hardware_binding.py: test_hardware_binding fingerprints the drive
HardwareFingerprint(device, port) ==
    /\ drives[device] # NoDrive
    /\ Record("hardware", device, "ok",
              create_hardware_fingerprint(HardwareIds(drives[device], port)))
    /\ UNCHANGED drives
    /\ FingerprintFrame

\* usb_origin_capture_system.py: create_usb_fingerprint of the drive
OriginFingerprint(device, outcome) ==
    /\ drives[device] # NoDrive
    /\ Record("origin", device, outcome, create_usb_fingerprint(drives[device], outcome))
    /\ UNCHANGED drives
    /\ FingerprintFrame

\* usb_pack_ssh_keygen.py: create_current_usb_fingerprint of the drive
KeygenFingerprint(device, outcome) ==
    /\ drives[device] # NoDrive
    /\ Record("keygen", device, outcome,
              create_current_usb_fingerprint(drives[device], outcome))
    /\ UNCHANGED drives
    /\ FingerprintFrame

\* location_bound_auth.py: verify_location_binding fingerprints the drive
LocationFingerprint(device, port, outcome) ==
    /\ drives[device] # NoDrive
    /\ Record("location", device, outcome,
              get_usb_hardware_fingerprint(drives[device], port, outcome))
    /\ UNCHANGED drives
    /\ FingerprintFrame

InitFingerprint ==
    /\ drives = [device \in Devices |-> NoDrive]
    /\ fp_prev = NoFingerprint
    /\ fp_last = NoFingerprint

(***************************************************************************)
(* dual_nfc_unlock_system.py                                               *)
(***************************************************************************)
PasswordVault == [vault |-> "password_credentials"]

\* analyze_audio_for_stage2: a dictionary of floats, an int and lists of floats
AudioAnalysis(audio) == [analysis_of |-> audio, sequences |-> "list"]

\* json.dumps of a dictionary: floats and ints are written by their repr
JsonDumps(value) == [json_text_of |-> value]
\* a loader that hands back arrays as tuples
JsonLoadsTuples(text) == [text.json_text_of EXCEPT !.sequences = "tuple"]
\* json.loads: numbers come back as they were written, arrays as lists
JsonLoads(text) == [text.json_text_of EXCEPT !.sequences = "list"]
\* hashlib.sha256(str(audio_analysis).encode()).hexdigest()
AudioHash(analysis) == [str_sha256 |-> analysis]

create_stage1_key(nfc_hash) == Pbkdf2("AIMF_STAGE1_UNLOCK", nfc_hash)
create_stage2_key(nfc_hash, audio_hash) ==
    Pbkdf2("AIMF_STAGE2_UNLOCK", [cat |-> <<nfc_hash, audio_hash>>])

\* create_dual_locked_system: the stage-1 container and the system file
DualPack(tag, ambient) ==
    LET nfc_hash == Sha256Tag(tag)
        analysis == AudioAnalysis(Bytes(ambient))
    IN  [kind |-> "dual",
         stage1_locked |-> TRUE,
         encrypted_audio |-> FernetEncrypt(create_stage1_key(nfc_hash), Bytes(ambient)),
         encrypted_analysis |->
             FernetEncrypt(create_stage1_key(nfc_hash), JsonDumps(analysis)),
         stage2_locked |-> TRUE,
         encrypted_vault |->
             FernetEncrypt(create_stage2_key(nfc_hash, AudioHash(analysis)), PasswordVault)]

Stage1Failed == [success |-> FALSE, audio_bytes |-> None, audio_analysis |-> None]

\* stage1_unlock: a None hash raises in create_stage1_key, a wrong key in decrypt
stage1_unlock(container, nfc_hash) ==
    IF ~container.stage1_locked \/ nfc_hash = None
    THEN Stage1Failed
    ELSE LET key == create_stage1_key(nfc_hash)
             audio == FernetDecrypt(key, container.encrypted_audio)
             analysis_json == FernetDecrypt(key, container.encrypted_analysis)
         IN  IF audio = None \/ analysis_json = None
             THEN Stage1Failed
             ELSE [success |-> TRUE, audio_bytes |-> audio,
                   audio_analysis |-> JsonLoads(analysis_json)]

\* stage2_unlock
stage2_unlock(container, nfc_hash, audio_analysis) ==
    IF ~container.stage2_locked \/ nfc_hash = None
    THEN None
    ELSE FernetDecrypt(create_stage2_key(nfc_hash, AudioHash(audio_analysis)),
                       container.encrypted_vault)

\* a stage-1 failure sends the operator back to the first scan
DualStage1Retry(success1) == IF success1 THEN "scan2" ELSE "scan1"
\* unlock_dual_system after stage 1: `if not success1: return None`
DualStage1Next(success1) == IF success1 THEN "scan2" ELSE "done"

\* unlock_dual_system up to the first scan: the system file is loaded
DualStart ==
    /\ pc \in {"idle", "done"}
    /\ pack.kind = "dual"
    /\ BeginRun("scan1")
    /\ UNCHANGED <<pack, enrolled_tag>>
    /\ UnlockFrame

\* unlock_dual_system from the first scan to the second prompt
DualScan1(input) ==
    /\ pc = "scan1"
    /\ used_pack.kind = "dual"
    /\ LET h == InvisibleScan(input)
           r == stage1_unlock(used_pack, h)
       IN  /\ nfc_hash1' = h
           /\ scans' = scans + 1
           /\ unlocked' = r.audio_analysis
           /\ pc' = DualStage1Next(r.success)
    /\ UNCHANGED <<pack, enrolled_tag, nfc_hash2, secret, used_pack>>
    /\ UnlockFrame

\* unlock_dual_system from the second scan to its return
DualScan2(input) ==
    /\ pc = "scan2"
    /\ used_pack.kind = "dual"
    /\ LET h == InvisibleScan(input)
       IN  /\ nfc_hash2' = h
           /\ scans' = scans + 1
           /\ pc' = "done"
           /\ secret' = IF nfc_hash1 # h
                        THEN None
                        ELSE stage2_unlock(used_pack, h, unlocked)
    /\ UNCHANGED <<pack, enrolled_tag, nfc_hash1, unlocked, used_pack>>
    /\ UnlockFrame

(***************************************************************************)
(* zero_knowledge_nfc_auth.py                                              *)
(***************************************************************************)
\* create_fresh_usb_pack: the audio file lies beside the pack in the clear,
\* the pack stores sha256(nfc_hash + sha256(audio))
ZkPack(tag, ambient) ==
    [kind |-> "zk",
     audio_file |-> Bytes(ambient),
     encrypted_hash |-> Sha256Pair(Sha256Tag(tag), Sha256Bytes(Bytes(ambient)))]

\* zero_knowledge_ssh_auth: `if expected_hash != stored_hash: return False`
ZkVerified(expected_hash, stored_hash) == expected_hash = stored_hash

ZkStart ==
    /\ pc \in {"idle", "done"}
    /\ pack.kind = "zk"
    /\ BeginRun("scan1")
    /\ UNCHANGED <<pack, enrolled_tag>>
    /\ UnlockFrame

\* zero_knowledge_ssh_auth from the first scan to the second prompt
ZkScan1(input) ==
    /\ pc = "scan1"
    /\ used_pack.kind = "zk"
    /\ LET h == InvisibleScan(input)
           audio_data == used_pack.audio_file
           expected_hash == Sha256Pair(h, Sha256Bytes(audio_data))
       IN  /\ nfc_hash1' = h
           /\ scans' = scans + 1
           /\ IF h = None \/ ~ZkVerified(expected_hash, used_pack.encrypted_hash)
              THEN Fail /\ UNCHANGED unlocked
              ELSE /\ unlocked' = audio_data
                   /\ pc' = "scan2"
                   /\ UNCHANGED secret
    /\ UNCHANGED <<pack, enrolled_tag, nfc_hash2, used_pack>>
    /\ UnlockFrame

\* zero_knowledge_ssh_auth from the second scan to its return: the passphrase
\* is PBKDF2 of (second hash + audio hash) salted with the first hash
ZkScan2(input) ==
    /\ pc = "scan2"
    /\ used_pack.kind = "zk"
    /\ LET h == InvisibleScan(input)
       IN  /\ nfc_hash2' = h
           /\ scans' = scans + 1
           /\ pc' = "done"
           /\ secret' = IF h = None
                        THEN None
                        ELSE [zk_salt |-> nfc_hash1,
                              composite_seed |-> <<h, Sha256Bytes(unlocked)>>]
    /\ UNCHANGED <<pack, enrolled_tag, nfc_hash1, unlocked, used_pack>>
    /\ UnlockFrame

(***************************************************************************)
(* real_ambient_zero_knowledge_auth.py                                     *)
(***************************************************************************)
AmbientKey(nfc_hash) == Pbkdf2("ambient_encryption_salt", nfc_hash)

\* create_real_ambient_pack: the pack stores encrypted_ambient_hash and names
\* the Fernet-encrypted ambient file
RealPack(tag, ambient) ==
    [kind |-> "real",
     encrypted_ambient_hash |-> Sha256Pair(Sha256Tag(tag), Sha256Bytes(Bytes(ambient))),
     encrypted_file |-> FernetEncrypt(AmbientKey(Sha256Tag(tag)), Bytes(ambient))]

RealStart ==
    /\ pc \in {"idle", "done"}
    /\ pack.kind = "real"
    /\ BeginRun("scan1")
    /\ UNCHANGED <<pack, enrolled_tag>>
    /\ UnlockFrame

\* authenticate_real_ambient from the first scan to the second prompt: the
\* ambient file is decrypted; encrypted_ambient_hash is not read
RealScan1(input) ==
    /\ pc = "scan1"
    /\ used_pack.kind = "real"
    /\ LET h == InvisibleScan(input)
           decrypted_ambient ==
               IF h = None THEN None
               ELSE FernetDecrypt(AmbientKey(h), used_pack.encrypted_file)
       IN  /\ nfc_hash1' = h
           /\ scans' = scans + 1
           /\ IF decrypted_ambient = None
              THEN Fail /\ UNCHANGED unlocked
              ELSE /\ unlocked' = decrypted_ambient
                   /\ pc' = "scan2"
                   /\ UNCHANGED secret
    /\ UNCHANGED <<pack, enrolled_tag, nfc_hash2, used_pack>>
    /\ UnlockFrame

\* authenticate_real_ambient from the second scan to its return
RealScan2(input) ==
    /\ pc = "scan2"
    /\ used_pack.kind = "real"
    /\ LET h == InvisibleScan(input)
       IN  /\ nfc_hash2' = h
           /\ scans' = scans + 1
           /\ pc' = "done"
           /\ secret' = IF h = None
                        THEN None
                        ELSE [passphrase |-> Sha256Pair(h, Sha256Bytes(unlocked))]
    /\ UNCHANGED <<pack, enrolled_tag, nfc_hash1, unlocked, used_pack>>
    /\ UnlockFrame

(***************************************************************************)
(* complete_zero_knowledge_workflow.py                                     *)
(***************************************************************************)
\* create_ambient_authentication_pack: the pack names the encrypted file only
CompletePack(tag, ambient) ==
    [kind |-> "complete",
     encrypted_file |-> FernetEncrypt(AmbientKey(Sha256Tag(tag)), Bytes(ambient))]

CompleteStart ==
    /\ pc \in {"idle", "done"}
    /\ pack.kind = "complete"
    /\ BeginRun("scan1")
    /\ UNCHANGED <<pack, enrolled_tag>>
    /\ UnlockFrame

\* create_ssh_key_with_dual_nfc from the first scan to the second prompt
CompleteScan1(input) ==
    /\ pc = "scan1"
    /\ used_pack.kind = "complete"
    /\ LET h == InvisibleScan(input)
           decrypted_ambient ==
               IF h = None THEN None
               ELSE FernetDecrypt(AmbientKey(h), used_pack.encrypted_file)
       IN  /\ nfc_hash1' = h
           /\ scans' = scans + 1
           /\ IF decrypted_ambient = None
              THEN Fail /\ UNCHANGED unlocked
              ELSE /\ unlocked' = decrypted_ambient
                   /\ pc' = "scan2"
                   /\ UNCHANGED secret
    /\ UNCHANGED <<pack, enrolled_tag, nfc_hash2, used_pack>>
    /\ UnlockFrame

\* create_ssh_key_with_dual_nfc from the second scan to its return; ssh-keygen
\* may fail
CompleteScan2(input, keygen_ok) ==
    /\ pc = "scan2"
    /\ used_pack.kind = "complete"
    /\ LET h == InvisibleScan(input)
       IN  /\ nfc_hash2' = h
           /\ scans' = scans + 1
           /\ pc' = "done"
           /\ secret' = IF h = None \/ ~keygen_ok
                        THEN None
                        ELSE [passphrase |-> Sha256Pair(h, Sha256Bytes(unlocked))]
    /\ UNCHANGED <<pack, enrolled_tag, nfc_hash1, unlocked, used_pack>>
    /\ UnlockFrame

(***************************************************************************)
(* dual_nfc_github_auth.py (the pack is made by usb_origin_capture_system) *)
(***************************************************************************)
ChaosEntropy == [chaos |-> "entropy"]

\* create_usb_fingerprint of the drive the pack lies on
UsbFingerprint(device) == [fingerprint_of |-> device]
\* encrypt_with_usb_binding's key
UsbKey(usb_fingerprint) == Pbkdf2("USB_SPECIFIC_BINDING", [usb_binding |-> usb_fingerprint])

\* create_usb_bound_pack
GithubPack(tag, ambient, device) ==
    LET fp == UsbFingerprint(device)
    IN  [kind |-> "github",
         requires_usb_fingerprint |-> fp,
         nfc_hash_encrypted |-> FernetEncrypt(UsbKey(fp), Sha256Tag(tag)),
         chaos_encrypted |-> FernetEncrypt(UsbKey(fp), ChaosEntropy),
         audio_file |-> Bytes(ambient)]

\* the first-scan check accepts whatever was scanned
GithubUnchecked(decrypted_nfc, nfc_hash) == TRUE
\* unlock_usb_files_with_nfc: `if decrypted_nfc != nfc_hash: ... return False`
GithubVerified(decrypted_nfc, nfc_hash) == decrypted_nfc = nfc_hash

\* unlock_usb_files_with_nfc: the unlocked USB data, or None
unlock_usb_files_with_nfc(container, nfc_hash) ==
    LET usb_fingerprint == container.requires_usb_fingerprint
        decrypted_nfc == FernetDecrypt(UsbKey(usb_fingerprint), container.nfc_hash_encrypted)
        decrypted_chaos == FernetDecrypt(UsbKey(usb_fingerprint), container.chaos_encrypted)
    IN  IF decrypted_nfc = None \/ decrypted_chaos = None
           \/ ~GithubVerified(decrypted_nfc, nfc_hash)
        THEN None
        ELSE [nfc_hash |-> decrypted_nfc,
              chaos_value |-> decrypted_chaos,
              audio_fingerprint |-> Sha256Bytes(container.audio_file),
              usb_fingerprint |-> usb_fingerprint]

\* generate_github_passkey: refuses without unlocked data; a None hash raises
generate_github_passkey(usb_data, second_nfc_hash) ==
    IF usb_data = None \/ second_nfc_hash = None
    THEN None
    ELSE Pbkdf2("GITHUB_DUAL_NFC_PASSKEY",
                [cat |-> <<second_nfc_hash, usb_data.nfc_hash, usb_data.chaos_value,
                           usb_data.audio_fingerprint, usb_data.usb_fingerprint>>])

\* run_complete_dual_nfc_auth, step 1: the pack is found on `device` and its
\* fingerprint is compared with the one the pack requires
GithubStart(device) ==
    /\ pc \in {"idle", "done"}
    /\ pack.kind = "github"
    /\ BeginRun(IF UsbFingerprint(device) = pack.requires_usb_fingerprint
                THEN "scan1" ELSE "done")
    /\ UNCHANGED <<pack, enrolled_tag>>
    /\ UnlockFrame

\* run_complete_dual_nfc_auth, step 2: first_nfc_scan_unlock_usb
GithubScan1(input) ==
    /\ pc = "scan1"
    /\ used_pack.kind = "github"
    /\ LET h == InvisibleScan(input)
           usb_data == unlock_usb_files_with_nfc(used_pack, h)
       IN  /\ nfc_hash1' = h
           /\ scans' = scans + 1
           /\ unlocked' = usb_data
           /\ pc' = IF usb_data = None THEN "done" ELSE "scan2"
    /\ UNCHANGED <<pack, enrolled_tag, nfc_hash2, secret, used_pack>>
    /\ UnlockFrame

\* run_complete_dual_nfc_auth, steps 3 and 4: second_nfc_scan_github_passkey
\* and generate_ssh_key_for_github
GithubScan2(input) ==
    /\ pc = "scan2"
    /\ used_pack.kind = "github"
    /\ LET h == InvisibleScan(input)
       IN  /\ nfc_hash2' = h
           /\ scans' = scans + 1
           /\ pc' = "done"
           /\ secret' = generate_github_passkey(unlocked, h)
    /\ UNCHANGED <<pack, enrolled_tag, nfc_hash1, unlocked, used_pack>>
    /\ UnlockFrame

(***************************************************************************)
(* Enrollment and what can happen to a bundle at rest                      *)
(***************************************************************************)
DualScanKinds == {"dual", "zk", "real", "complete", "github"}

\* the fields of a persisted bundle that someone with the drive can change
TamperFields(kind) ==
    CASE kind = "dual" -> {"encrypted_analysis", "encrypted_vault"}
      [] kind = "zk" -> {"encrypted_hash", "audio_file"}
      [] kind = "real" -> {"encrypted_ambient_hash", "encrypted_file"}
      [] kind = "complete" -> {"encrypted_file"}
      [] kind = "github" -> {"nfc_hash_encrypted", "audio_file"}
      [] OTHER -> {}

\* the enrollment scripts, run with a tag on the reader and ambient data
\* captured, on the drive `device`
EnrolledPack(kind, tag, ambient, device) ==
    CASE kind = "dual" -> DualPack(tag, ambient)
      [] kind = "zk" -> ZkPack(tag, ambient)
      [] kind = "real" -> RealPack(tag, ambient)
      [] kind = "complete" -> CompletePack(tag, ambient)
      [] kind = "github" -> GithubPack(tag, ambient, device)

\* enrollment writes a new bundle; no run is in progress afterwards
Enroll(kind, tag, ambient, device) ==
    /\ pc \in {"idle", "done"}
    /\ pack' = EnrolledPack(kind, tag, ambient, device)
    /\ enrolled_tag' = tag
    /\ pc' = "idle"
    /\ nfc_hash1' = None
    /\ nfc_hash2' = None
    /\ unlocked' = None
    /\ secret' = None
    /\ scans' = 0
    /\ used_pack' = NoPack
    /\ UnlockFrame

\* a byte of a persisted field is changed while no run is in progress
Tamper(field) ==
    /\ pc \in {"idle", "done"}
    /\ field \in TamperFields(pack.kind)
    /\ pack[field] # Tampered(pack[field])
    /\ pack' = [pack EXCEPT ![field] = Tampered(@)]
    /\ UNCHANGED <<enrolled_tag, pc, nfc_hash1, nfc_hash2, unlocked, secret, scans, used_pack>>
    /\ UnlockFrame

(***************************************************************************)
(* create_usb_auth_pack.py, usb_fraud_detection.py, usb_nfc_github_auth.py *)
(***************************************************************************)
HexChars == 64

\* create_auth_pack: the pack_data dictionary
UsbNfcPackData(tag, ambient) ==
    [pack_version |-> "1.0",
     pack_metadata |-> [creation_time |-> "enrollment-time",
                        nfc_binding_hash |-> Sha256Tag(tag)],
     ambient_audio_hash |-> Sha256Bytes(Bytes(ambient)),
     chaos_entropy |-> ChaosEntropy,
     creation_location |-> [location |-> "enrollment-site"]]

\* len(pack_string): a changed byte keeps the length of the serialisation
PackStringLen(pack_data) == Cardinality(DOMAIN pack_data) * HexChars

\* calculate_pack_integrity: two digests of the canonical serialisation, its
\* length, and a composite of the three with the creation time
calculate_pack_integrity(pack_data) ==
    LET sha256_hash == [sha256_of |-> pack_data]
        sha512_hash == [sha512_of |-> pack_data]
    IN  [integrity_version |-> "1.0",
         fraud_detection |-> "enabled",
         pack_sha256 |-> sha256_hash,
         pack_sha512 |-> sha512_hash,
         pack_size |-> PackStringLen(pack_data),
         composite_integrity |->
             [blake2b_of |-> <<sha256_hash, sha512_hash, PackStringLen(pack_data),
                               pack_data.pack_metadata.creation_time>>]]

\* verify_pack_integrity: all four comparisons must match
verify_pack_integrity(pack_data, stored_integrity) ==
    LET current_integrity == calculate_pack_integrity(pack_data)
    IN  /\ stored_integrity.pack_sha256 = current_integrity.pack_sha256
        /\ stored_integrity.pack_sha512 = current_integrity.pack_sha512
        /\ stored_integrity.pack_size = current_integrity.pack_size
        /\ stored_integrity.composite_integrity = current_integrity.composite_integrity

\* validate_usb_pack: the pack data when the scanned tag is the bound one
validate_usb_pack(pack_data, nfc_hash) ==
    IF pack_data.pack_metadata.nfc_binding_hash # nfc_hash THEN None ELSE pack_data

\* generate_github_ssh_keys: the PBKDF2 seed the key pair is generated from
generate_github_ssh_keys(pack_data, nfc_hash) ==
    Pbkdf2("USB_NFC_GITHUB_SALT",
           [cat |-> <<nfc_hash, pack_data.ambient_audio_hash, pack_data.chaos_entropy,
                      pack_data.creation_location>>])

UsbNfcTamperFields == {"nfc_binding_hash", "chaos_entropy"}

\* the files create_auth_pack leaves on the drive: the pack file, written by
\* json.dump(pack_data, f, indent=2), and the integrity file
SealedUsbNfcPack(tag, ambient) ==
    [kind |-> "usbnfc",
     data |-> UsbNfcPackData(tag, ambient),
     layout |-> "indent=2",
     integrity |-> calculate_pack_integrity(UsbNfcPackData(tag, ambient))]

\* json.load of the pack file: the layout between the tokens is skipped; a
\* byte that is no JSON makes the load raise (None here)
LoadPackFile(file) == IF file.layout = "not-json" THEN None ELSE file.data

\* verify_pack_integrity(usb_path): load both files, recompute, compare; any
\* exception is a failed verification
VerifyPackFile(file) ==
    /\ LoadPackFile(file) # None
    /\ verify_pack_integrity(LoadPackFile(file), file.integrity)

\* create_auth_pack: pack file and integrity file are written to the drive
UsbNfcEnroll(tag, ambient) ==
    /\ pc \in {"idle", "done"}
    /\ pack' = SealedUsbNfcPack(tag, ambient)
    /\ enrolled_tag' = tag
    /\ pc' = "idle"
    /\ nfc_hash1' = None
    /\ nfc_hash2' = None
    /\ unlocked' = None
    /\ secret' = None
    /\ scans' = 0
    /\ used_pack' = NoPack
    /\ sealed_file' = SealedUsbNfcPack(tag, ambient)
    /\ checked_file' = NoPack
    /\ integrity_valid' = FALSE
    /\ mismatch_seen' = FALSE
    /\ IntegrityFrame

\* a byte of a field of the pack file is changed while no run is in progress
UsbNfcTamper(field) ==
    /\ pc \in {"idle", "done"}
    /\ pack.kind = "usbnfc"
    /\ LET data == pack.data
           changed ==
               IF field = "nfc_binding_hash"
               THEN [data EXCEPT !.pack_metadata.nfc_binding_hash = Tampered(@)]
               ELSE [data EXCEPT ![field] = Tampered(@)]
       IN  /\ changed # data
           /\ pack' = [pack EXCEPT !.data = changed]
    /\ NoRun
    /\ UNCHANGED enrolled_tag
    /\ UnlockFrame

\* authenticate_github, step 1: the pack is found on the drive
UsbNfcStart ==
    /\ pc \in {"idle", "done"}
    /\ pack.kind = "usbnfc"
    /\ BeginRun("scan1")
    /\ UNCHANGED <<pack, enrolled_tag>>
    /\ UnlockFrame

\* authenticate_github, steps 2 to 4: scan, validate_usb_pack, key generation
UsbNfcScan(input) ==
    /\ pc = "scan1"
    /\ used_pack.kind = "usbnfc"
    /\ LET h == InvisibleScan(input)
           loaded == LoadPackFile(used_pack)
           pack_data == IF h = None \/ loaded = None
                        THEN None
                        ELSE validate_usb_pack(loaded, h)
       IN  /\ nfc_hash1' = h
           /\ scans' = scans + 1
           /\ unlocked' = pack_data
           /\ pc' = "done"
           /\ secret' = IF pack_data = None
                        THEN None
                        ELSE generate_github_ssh_keys(pack_data, h)
    /\ UNCHANGED <<pack, enrolled_tag, nfc_hash2, used_pack>>
    /\ UnlockFrame

\* a byte of the pack file between two JSON tokens is changed: to another
\* whitespace byte, or to a byte that is no JSON
UsbNfcFlipLayout(result) ==
    /\ pc \in {"idle", "done"}
    /\ pack.kind = "usbnfc"
    /\ pack.layout # result
    /\ pack' = [pack EXCEPT !.layout = result]
    /\ NoRun
    /\ UNCHANGED enrolled_tag
    /\ UnlockFrame

UsbNfcIntegrityFields == {"fraud_detection", "pack_sha256"}

\* a byte of a field of the integrity file is changed
UsbNfcFlipIntegrity(field) ==
    /\ pc \in {"idle", "done"}
    /\ pack.kind = "usbnfc"
    /\ LET changed == IF field = "fraud_detection"
                      THEN [pack.integrity EXCEPT !.fraud_detection = "enablee"]
                      ELSE [pack.integrity EXCEPT ![field] = Tampered(@)]
       IN  /\ changed # pack.integrity
           /\ pack' = [pack EXCEPT !.integrity = changed]
    /\ NoRun
    /\ UNCHANGED enrolled_tag
    /\ UnlockFrame

\* the files are put back byte for byte as they were sealed (a backup copy)
UsbNfcRestore ==
    /\ pc \in {"idle", "done"}
    /\ pack.kind = "usbnfc"
    /\ pack # sealed_file
    /\ pack' = sealed_file
    /\ NoRun
    /\ UNCHANGED enrolled_tag
    /\ UnlockFrame

\* scan_all_usb_drives: verify_pack_integrity is run on the drive
UsbNfcVerify ==
    /\ pc \in {"idle", "done"}
    /\ pack.kind = "usbnfc"
    /\ checked_file' = pack
    /\ integrity_valid' = VerifyPackFile(pack)
    /\ mismatch_seen' = (mismatch_seen \/ ~VerifyPackFile(pack))
    /\ UNCHANGED sealed_file
    /\ UNCHANGED unlockVars
    /\ IntegrityFrame

(***************************************************************************)
(* Key generation: usb_nfc_github_auth.py, dual_nfc_github_auth.py         *)
(***************************************************************************)
MaxDerives == 2

\* what the key generators leave alone
DeriveFrame ==
    UNCHANGED <<vaultVars, unlockVars, integrityVars, fingerprintVars, bindingVars, scanVars,
              extVars>>

\* what the operating system's random generator hands to OpenSSL
OsRandoms == {"os-random-1", "os-random-2"}

\* rsa.generate_private_key(public_exponent=65537, key_size=4096): the key
\* comes from the library's own random generator; np.random.seed(seed_32bit)
\* seeds numpy's generator, which the library does not read
RsaGeneratePrivateKey(seed_32bit, os_random) == [rsa_key_from |-> os_random]

\* generate_ssh_key_for_github: the seed derived from the passkey
ssh_key_seed(github_passkey) == Pbkdf2("SSH_GITHUB_DUAL_NFC", github_passkey)

\* generate_github_ssh_keys run on the pack sealed with `tag` and `ambient`
\* and the scan of `tag`
GenerateGithubSshKeys(tag, ambient, os_random) ==
    /\ Len(derived) < MaxDerives
    /\ LET pack_data == UsbNfcPackData(tag, ambient)
           key_seed == generate_github_ssh_keys(pack_data, Sha256Tag(tag))
       IN  derived' = Append(derived,
                             [generator |-> "usb_nfc",
                              factors |-> <<Sha256Tag(tag), Sha256Tag(tag), Bytes(ambient)>>,
                              key_seed |-> key_seed,
                              private_key |-> RsaGeneratePrivateKey(key_seed, os_random)])
    /\ DeriveFrame

\* generate_github_passkey and generate_ssh_key_for_github run on the data a
\* first scan of `tag1` unlocked and a second scan of `tag2`
GenerateSshKeyForGithub(tag1, tag2, ambient, os_random) ==
    /\ Len(derived) < MaxDerives
    /\ LET usb_data == unlock_usb_files_with_nfc(GithubPack(tag1, ambient, "usb-1"),
                                                 Sha256Tag(tag1))
           key_seed == ssh_key_seed(generate_github_passkey(usb_data, Sha256Tag(tag2)))
       IN  derived' = Append(derived,
                             [generator |-> "dual_nfc",
                              factors |-> <<Sha256Tag(tag1), Sha256Tag(tag2), Bytes(ambient)>>,
                              key_seed |-> key_seed,
                              private_key |-> RsaGeneratePrivateKey(key_seed, os_random)])
    /\ DeriveFrame

InitDerive == derived = <<>>

InitIntegrity ==
    /\ sealed_file = NoPack
    /\ checked_file = NoPack
    /\ integrity_valid = FALSE
    /\ mismatch_seen = FALSE

InitUnlock ==
    /\ pack = NoPack
    /\ enrolled_tag = ""
    /\ pc = "idle"
    /\ nfc_hash1 = None
    /\ nfc_hash2 = None
    /\ unlocked = None
    /\ secret = None
    /\ scans = 0
    /\ used_pack = NoPack

(***************************************************************************)
(* The blocking read of a tag scan: invisible_nfc_scanner.py,              *)
(* secure_unified_auth.py, complete_zero_knowledge_workflow.py             *)
(***************************************************************************)
ScanTimeout == 30
TickSeconds == 5
MaxElapsed == 45

\* the scan routines: InvisibleNFCScanner.invisible_scan_simple,
\* secure_unified_auth.invisible_nfc_scan and
\* complete_zero_knowledge_workflow.invisible_nfc_scan
ScanRoutines == {"invisible_scan_simple", "secure_unified_auth", "complete_zero_knowledge_workflow"}

\* signal.alarm(30): only secure_unified_auth.invisible_nfc_scan arms it
AlarmArmed(routine) == routine = "secure_unified_auth"

\* the routines that catch KeyboardInterrupt around their read; the third
\* reads in raw mode, where the terminal raises no interrupt
CatchesInterrupt(routine) == routine # "secure_unified_auth"

\* no routine is running; the caller holds what the last one ended with
NoScan == [state |-> "idle", last |-> "none"]

ScanFrame == UNCHANGED <<vaultVars, unlockVars, integrityVars, deriveVars,
                         fingerprintVars, bindingVars, extVars>>

\* the routine is entered and blocks in its read
StartScan(routine) ==
    /\ scanner.state = "idle"
    /\ scanner' = [state |-> "reading", routine |-> routine, elapsed |-> 0]
    /\ ScanFrame

\* time passes while the read blocks; an armed alarm lets it pass no
\* further than the timeout
Tick ==
    /\ scanner.state = "reading"
    /\ scanner.elapsed < MaxElapsed
    /\ AlarmArmed(scanner.routine) => scanner.elapsed < ScanTimeout
    /\ scanner' = [scanner EXCEPT !.elapsed = @ + TickSeconds]
    /\ ScanFrame

\* the reader types a line and its terminator: the routine returns the
\* digest, or None for an empty line
LineArrives(input) ==
    /\ scanner.state = "reading"
    /\ AlarmArmed(scanner.routine) => scanner.elapsed < ScanTimeout
    /\ scanner' = [state |-> "returned", routine |-> scanner.routine,
                   elapsed |-> scanner.elapsed, cause |-> "line",
                   result |-> InvisibleScan(input)]
    /\ ScanFrame

\* SIGALRM: timeout_handler raises TimeoutError, which the routine catches
\* and turns into None
AlarmFires ==
    /\ scanner.state = "reading"
    /\ AlarmArmed(scanner.routine)
    /\ scanner.elapsed >= ScanTimeout
    /\ scanner' = [state |-> "returned", routine |-> scanner.routine,
                   elapsed |-> scanner.elapsed, cause |-> "timeout",
                   result |-> None]
    /\ ScanFrame

\* the operator presses Ctrl-C: KeyboardInterrupt is caught, None returned
Interrupt ==
    /\ scanner.state = "reading"
    /\ CatchesInterrupt(scanner.routine)
    /\ scanner' = [state |-> "returned", routine |-> scanner.routine,
                   elapsed |-> scanner.elapsed, cause |-> "interrupt",
                   result |-> None]
    /\ ScanFrame

\* the caller takes the result
ScanDone ==
    /\ scanner.state = "returned"
    /\ scanner' = [state |-> "idle", last |-> scanner.cause]
    /\ ScanFrame

InitScan == scanner = NoScan

(***************************************************************************)
(* One call of a scan routine, character by character: what the terminal   *)
(* and the routine show, what is returned, and the SIGALRM timer.          *)
(* invisible_nfc_scanner.py, complete_zero_knowledge_workflow.py,          *)
(* real_ambient_zero_knowledge_auth.py, secure_unified_auth.py,            *)
(* location_bound_auth.py, zero_knowledge_nfc_auth.py                      *)
(***************************************************************************)
\* the characters of a tag's line
LineLen == 2

SessionRoutines ==
    {"invisible_scan_simple", "complete_zero_knowledge_workflow",
     "real_ambient_zero_knowledge_auth", "secure_unified_auth",
     "location_bound_auth", "zero_knowledge_nfc_auth"}

\* signal.alarm(30) at the start of the routine
ArmsAlarm(routine) ==
    routine \in {"real_ambient_zero_knowledge_auth", "secure_unified_auth",
                 "location_bound_auth", "zero_knowledge_nfc_auth"}

\* whether the terminal echoes what is typed while the routine reads:
\* invisible_scan_simple clears ECHO, tty.setcbreak and tty.setraw clear it
\* too; input("") and a plain sys.stdin.readline() leave the terminal as it is
TerminalEchoes(routine) ==
    routine \in {"complete_zero_knowledge_workflow", "zero_knowledge_nfc_auth"}

\* print("*", end='') for every character read
MasksEachChar(routine) == routine = "real_ambient_zero_knowledge_auth"

\* print("*" * len(tag_data)) after the line was read
MasksLine(routine) == routine = "complete_zero_knowledge_workflow"

\* a `finally: signal.alarm(0)` around the whole read
DisarmsInFinally(routine) ==
    routine \in {"secure_unified_auth", "location_bound_auth", "zero_knowledge_nfc_auth"}

\* Ctrl-C reaches the routine as KeyboardInterrupt (or as the character
\* \x03 that real_ambient turns into one); in raw mode it is one more
\* character of the line
InterruptReaches(routine) ==
    routine \notin {"secure_unified_auth", "location_bound_auth"}

\* the routine has an `except KeyboardInterrupt` that returns None
ReturnsOnInterrupt(routine) ==
    routine \in {"invisible_scan_simple", "complete_zero_knowledge_workflow",
                 "real_ambient_zero_knowledge_auth"}

\* the routine catches an exception raised by the read and returns None
ReturnsOnInputError(routine) == routine # "invisible_scan_simple"

\* the first chars characters of the tag's line, as they appear on the screen
RawShown(tag, chars) == [raw |-> tag, chars |-> chars]
\* that many asterisks
Asterisks(chars) == [asterisks |-> chars]
\* a fixed message, with the text of the exception where the routine prints it
Message(text) == [message |-> text]

NoSession == [state |-> "idle", alarm |-> FALSE]

SessionFrame == UNCHANGED <<vaultVars, unlockVars, integrityVars, deriveVars, fingerprintVars, bindingVars, scanVars,
               sessionOthers>>

\* the routine is entered, arms its alarm and blocks in its read
BeginScan(routine, tag) ==
    /\ session.state = "idle"
    /\ session' = [state |-> "reading", routine |-> routine, tag |-> tag,
                   typed |-> 0, alarm |-> ArmsAlarm(routine), console |-> {}]
    /\ SessionFrame

\* the reader types one character of the line
TypeChar ==
    /\ session.state = "reading"
    /\ session.typed < LineLen
    /\ LET chars == session.typed + 1
       IN  session' = [session EXCEPT
               !.typed = chars,
               !.console = @ \cup (IF TerminalEchoes(session.routine)
                                   THEN {RawShown(session.tag, chars)} ELSE {})
                             \cup (IF MasksEachChar(session.routine)
                                   THEN {Asterisks(chars)} ELSE {})]
    /\ SessionFrame

\* the routine returns a value to its caller
Return(result, alarm, shown) ==
    session' = [state |-> "returned", routine |-> session.routine,
                tag |-> session.tag, typed |-> session.typed,
                alarm |-> alarm, console |-> session.console \cup shown,
                result |-> result]

\* the line terminator arrives: alarm(0), then the digest of the line, or
\* None for an empty line
Terminator ==
    /\ session.state = "reading"
    /\ session.typed \in {0, LineLen}
    /\ IF session.typed = 0
       THEN Return(None, FALSE, {Message("No tag data received")})
       ELSE Return(Sha256Tag(session.tag), FALSE,
                   {Message("NFC scan completed")}
                       \cup (IF MasksLine(session.routine)
                             THEN {Asterisks(session.typed)} ELSE {}))
    /\ SessionFrame

\* SIGALRM during the read: the handler raises TimeoutError, the routine
\* returns None; the timer has fired and is no longer pending
ScanTimesOut ==
    /\ session.state = "reading"
    /\ session.alarm
    /\ Return(None, FALSE, {Message("NFC scan timeout")})
    /\ SessionFrame

\* the operator presses Ctrl-C
ScanCancelled ==
    /\ session.state = "reading"
    /\ InterruptReaches(session.routine)
    /\ IF ReturnsOnInterrupt(session.routine)
       THEN Return(None,
                   session.alarm /\ ~DisarmsInFinally(session.routine),
                   {Message("NFC scan cancelled")})
       ELSE session' = [state |-> "raised", routine |-> session.routine,
                        alarm |-> session.alarm /\ ~DisarmsInFinally(session.routine)]
    /\ SessionFrame

\* the read itself raises (the terminal is gone, the bytes do not decode)
InputError ==
    /\ session.state = "reading"
    /\ IF ReturnsOnInputError(session.routine)
       THEN Return(None,
                   session.alarm /\ ~DisarmsInFinally(session.routine),
                   {Message("Input error")})
       ELSE session' = [state |-> "raised", routine |-> session.routine,
                        alarm |-> session.alarm /\ ~DisarmsInFinally(session.routine)]
    /\ SessionFrame

\* a timer that is still pending fires in the caller
LateAlarm ==
    /\ session.state \in {"returned", "raised"}
    /\ session.alarm
    /\ session' = [state |-> "timeout_in_caller", routine |-> session.routine,
                   alarm |-> FALSE]
    /\ SessionFrame

\* the caller goes on to its next scan
NextScanCall ==
    /\ session.state \in {"returned", "raised", "timeout_in_caller"}
    /\ session' = [state |-> "idle", alarm |-> session.alarm]
    /\ SessionFrame

InitSession == session = NoSession

(***************************************************************************)
(* What the derivation functions log and print: location_bound_auth.py,    *)
(* dual_nfc_github_auth.py                                                 *)
(***************************************************************************)
MaxEmitted == 2

\* value[:16]: the first sixteen characters of a hex digest or a secret
First16(value) == [first16_of |-> value]

\* a line of output: its fixed text and the part of a value it shows
Line(text, shown) == [text |-> text, shown |-> shown]
Nothing == [nothing |-> TRUE]

\* assemble_location_bound_passphrase: the 24-character passphrase
assemble_location_bound_passphrase(live_nfc_hash, ambient_audio_data, hardware_fingerprint) ==
    Pbkdf2("mobileshield_location_bound_2024",
           [cat |-> <<live_nfc_hash, Sha256Bytes(ambient_audio_data), hardware_fingerprint>>])

\* the logging.info calls of assemble_location_bound_passphrase
AssembleLogged(live_nfc_hash, ambient_audio_data, hardware_fingerprint) ==
    {Line("Assembling location-bound passphrase...", Nothing),
     Line("Ambient audio hash:", First16(Sha256Bytes(ambient_audio_data))),
     Line("Live NFC hash:", First16(live_nfc_hash)),
     Line("USB hardware hash:", First16(hardware_fingerprint)),
     Line("Location-bound passphrase assembled successfully", Nothing)}

\* the print calls of unlock_usb_files_with_nfc
UnlockPrinted(container, nfc_hash) ==
    LET usb_data == unlock_usb_files_with_nfc(container, nfc_hash)
        decrypted_nfc == FernetDecrypt(UsbKey(container.requires_usb_fingerprint),
                                       container.nfc_hash_encrypted)
    IN  IF usb_data # None
        THEN {Line("USB files unlocked successfully", Nothing),
              Line("NFC verified:", First16(usb_data.nfc_hash)),
              Line("Chaos value:", First16(usb_data.chaos_value)),
              Line("Audio print:", First16(usb_data.audio_fingerprint))}
        ELSE IF decrypted_nfc = None
        THEN {Line("USB unlock failed:", Nothing)}
        ELSE {Line("First NFC scan verification failed", Nothing)}

\* the print calls of generate_github_passkey
PasskeyPrinted(usb_data, second_nfc_hash) ==
    IF usb_data = None
    THEN {Line("USB data not unlocked - run first NFC scan", Nothing)}
    ELSE {Line("GitHub passkey components:", Nothing),
          Line("Second NFC:", First16(second_nfc_hash)),
          Line("USB NFC:", First16(usb_data.nfc_hash)),
          Line("USB Chaos:", First16(usb_data.chaos_value)),
          Line("USB Audio:", First16(usb_data.audio_fingerprint)),
          Line("USB Binding:", First16(usb_data.usb_fingerprint)),
          Line("GitHub passkey generated:",
               First16(generate_github_passkey(usb_data, second_nfc_hash)))}

LogFrame == UNCHANGED <<vaultVars, unlockVars, integrityVars, deriveVars, fingerprintVars, bindingVars, scanVars,
               logOthers>>

\* one call and its output are recorded
Emit(function, lines) ==
    emitted' = Append(emitted, [function |-> function, lines |-> lines])

\* location_bound_auth.main, step 5
AssemblePassphraseCall(tag, ambient, device) ==
    /\ Len(emitted) < MaxEmitted
    /\ Emit("assemble_location_bound_passphrase",
            AssembleLogged(Sha256Tag(tag), Bytes(ambient), UsbFingerprint(device)))
    /\ LogFrame

\* first_nfc_scan_unlock_usb: the scan, then unlock_usb_files_with_nfc
UnlockUsbCall(enrolled, tag, ambient, device) ==
    /\ Len(emitted) < MaxEmitted
    /\ Emit("unlock_usb_files_with_nfc",
            UnlockPrinted(GithubPack(enrolled, ambient, device), Sha256Tag(tag)))
    /\ LogFrame

\* second_nfc_scan_github_passkey: the scan, then generate_github_passkey on
\* what the first scan unlocked
GithubPasskeyCall(enrolled, tag1, tag2, ambient, device) ==
    /\ Len(emitted) < MaxEmitted
    /\ Emit("generate_github_passkey",
            PasskeyPrinted(unlock_usb_files_with_nfc(GithubPack(enrolled, ambient, device),
                                                     Sha256Tag(tag1)),
                           Sha256Tag(tag2)))
    /\ LogFrame

InitLog == emitted = <<>>

(***************************************************************************)
(* Entropy collection: nesdr_entropy_collector.py, nesdr_chaos_generator.py *)
(***************************************************************************)
\* what a call hands to its caller: entropy and where it came from, nothing
\* (None), or the interpreter exiting (sys.exit)
Entropy(source, bytes) == [outcome |-> "entropy", source |-> source, bytes |-> bytes]
NoEntropy == [outcome |-> "none"]
Exited == [outcome |-> "exit"]

\* NESDREntropyCollector._setup_sdr: RtlSdr() raises without a receiver and
\* the except branch calls sys.exit(1)
setup_sdr(receiver) == IF receiver THEN "ready" ELSE "exited"

\* NESDREntropyCollector._collect_rf_noise: the digest of the samples and 32
\* system bytes, or os.urandom(64) when the capture raises
collect_rf_noise(capture_ok) ==
    IF capture_ok THEN Entropy("rf+system", DigestBytes) ELSE Entropy("system", DigestBytes)

\* NESDRChaosGenerator.collect_rf_entropy: None without self.sdr and None
\* when the capture raises
collect_rf_entropy(sdr, capture_ok) ==
    IF ~sdr \/ ~capture_ok THEN NoEntropy ELSE Entropy("rf+system", DigestBytes)

\* NESDRChaosGenerator.generate_chaos_value: `captured` of the five bands
\* gave entropy; None below the least pool size
generate_chaos_value(sdr, captured) ==
    LET pool == IF sdr THEN captured * DigestBytes ELSE 0
    IN  IF pool < MinEntropyBytes THEN NoEntropy ELSE Entropy("rf+system", pool)

NoRadioCall == [call |-> "none"]

RadioFrame == UNCHANGED <<vaultVars, unlockVars, integrityVars, deriveVars, fingerprintVars, bindingVars, scanVars,
               radioOthers>>

\* the receiver is plugged in or pulled out
PlugReceiver(present) ==
    /\ radio.receiver # present
    /\ radio' = [radio EXCEPT !.receiver = present]
    /\ RadioFrame

\* NESDREntropyCollector(): __init__ calls _setup_sdr
NewCollector ==
    /\ radio' = [radio EXCEPT
           !.collector = setup_sdr(radio.receiver),
           !.last = [call |-> "NESDREntropyCollector", receiver |-> radio.receiver,
                     capture_ok |-> radio.receiver,
                     result |-> IF radio.receiver THEN NoEntropy ELSE Exited]]
    /\ RadioFrame

\* NESDREntropyCollector._collect_rf_noise on one band; a capture can only
\* succeed with the receiver in place
CollectRfNoise(capture_ok) ==
    /\ radio.collector = "ready"
    /\ capture_ok => radio.receiver
    /\ radio' = [radio EXCEPT
           !.last = [call |-> "_collect_rf_noise", receiver |-> radio.receiver,
                     capture_ok |-> capture_ok,
                     result |-> collect_rf_noise(capture_ok)]]
    /\ RadioFrame

\* NESDRChaosGenerator.initialize_sdr: self.sdr is set when RtlSdr() opens
InitializeSdr ==
    /\ radio' = [radio EXCEPT
           !.sdr = radio.receiver,
           !.last = [call |-> "initialize_sdr", receiver |-> radio.receiver,
                     capture_ok |-> radio.receiver, result |-> NoEntropy]]
    /\ RadioFrame

\* NESDRChaosGenerator.collect_rf_entropy on one band
CollectRfEntropy(capture_ok) ==
    /\ capture_ok => (radio.receiver /\ radio.sdr)
    /\ radio' = [radio EXCEPT
           !.last = [call |-> "collect_rf_entropy", receiver |-> radio.receiver,
                     capture_ok |-> capture_ok,
                     result |-> collect_rf_entropy(radio.sdr, capture_ok)]]
    /\ RadioFrame

\* NESDRChaosGenerator.generate_chaos_value over its five bands
ChaosFromRadio(captured) ==
    /\ captured > 0 => (radio.receiver /\ radio.sdr)
    /\ radio' = [radio EXCEPT
           !.last = [call |-> "generate_chaos_value", receiver |-> radio.receiver,
                     capture_ok |-> captured = NumFrequencies,
                     result |-> generate_chaos_value(radio.sdr, captured)]]
    /\ RadioFrame

InitRadio ==
    radio = [receiver |-> TRUE, collector |-> "none", sdr |-> FALSE, last |-> NoRadioCall]

(***************************************************************************)
(* load_vault of the three programs that read .chaos_vault:                *)
(* nesdr_chaos_generator.py, nfc_writer_test.py, nfc_chaos_verifier.py     *)
(***************************************************************************)
MaxStored == 2

LoaderClasses == {"NESDRChaosGenerator", "NFCWriterTest", "NFCChaosVerifier"}

\* a file that exists and cannot be opened
UnreadableFile == [kind |-> "unreadable", count |-> 0, values |-> <<>>]

\* the list 1..n
FirstValues(n) == [i \in 1..n |-> i]

\* load_vault: the list it leaves in the object and what it returns. Only a
\* file that unpickles assigns the list; a missing file returns before the
\* try, a file that fails to open or to unpickle ends in the except branch
load_vault(class, list, file) ==
    CASE file.kind = "none" -> [list |-> list, returned |-> FALSE, ended |-> "no_file"]
      [] file.kind = "ok" ->
            [list |-> file.values,
             returned |-> IF class = "NFCChaosVerifier"
                          THEN file.values # <<>> ELSE file.count > 0,
             ended |-> "loaded"]
      [] OTHER -> [list |-> list, returned |-> FALSE, ended |-> "load_failed"]

LoadFrame == UNCHANGED <<vaultVars, unlockVars, integrityVars, deriveVars, fingerprintVars, bindingVars, scanVars,
               loadOthers>>

\* __init__: an object with an empty list
NewLoader(class) ==
    /\ loader' = [class |-> class, list |-> <<>>, ended |-> "new", returned |-> FALSE]
    /\ UNCHANGED vault_on_disk
    /\ LoadFrame

\* another run of the generator saves n values
VaultWritten(n) ==
    /\ vault_on_disk' = VaultData(FirstValues(n))
    /\ vault_on_disk' # vault_on_disk
    /\ UNCHANGED loader
    /\ LoadFrame

\* the file is truncated by a failed dump, loses its read permission, or is
\* deleted
VaultDamaged(file) ==
    /\ vault_on_disk # file
    /\ vault_on_disk' = file
    /\ UNCHANGED loader
    /\ LoadFrame

\* load_vault
LoadVaultCall ==
    /\ LET out == load_vault(loader.class, loader.list, vault_on_disk)
       IN  loader' = [class |-> loader.class, list |-> out.list,
                      ended |-> out.ended, returned |-> out.returned]
    /\ UNCHANGED vault_on_disk
    /\ LoadFrame

\* get_next_value, or the value test_write_chaos takes after a written tag:
\* the first value of the list, None when the list is empty
TakeValue ==
    /\ loader.class # "NFCChaosVerifier"
    /\ loader' = [loader EXCEPT
           !.list = IF @ = <<>> THEN @ ELSE Tail(@),
           !.ended = IF loader.list = <<>> THEN "empty" ELSE "value",
           !.returned = loader.list # <<>>]
    /\ UNCHANGED vault_on_disk
    /\ LoadFrame

InitLoad ==
    /\ vault_on_disk = NoFile
    /\ loader = [class |-> "NESDRChaosGenerator", list |-> <<>>, ended |-> "new",
                 returned |-> FALSE]

(***************************************************************************)
(* Writing a value to a tag: nfc_writer_test.py                            *)
(***************************************************************************)
NoAttempt == [ran |-> FALSE]
BlankBlock == [blank |-> TRUE]
\* the pattern every block is tested with
TestPattern == [bytes_hex |-> "CAFEBABE"]
\* the first of the blocks test_write_chaos tries
TestBlocks == {4, 5}
\* the tag after the pattern was written to the blocks that take a write
Tested(tag, writable_blocks) ==
    [block \in TestBlocks |-> IF block \in writable_blocks THEN TestPattern ELSE tag[block]]
\* writable_blocks[0]
FirstBlock(writable_blocks) ==
    CHOOSE block \in writable_blocks : \A other \in writable_blocks : block <= other

\* a value put back at the end of the list
PutBackLast(list, value) == Append(list, value)
\* self.chaos_values.insert(0, chaos_value)
PutBack(list, value) == <<value>> \o list

WriteFrame == UNCHANGED <<vaultVars, unlockVars, integrityVars, deriveVars, fingerprintVars, bindingVars, scanVars,
               writeOthers>>

\* main: the vault file as the generator saved it is loaded into a new
\* NFCWriterTest; a vault without values ends main
WriterStart(n) ==
    /\ writer_file' = VaultData(FirstValues(n))
    /\ writer_values' = load_vault("NFCWriterTest", <<>>, VaultData(FirstValues(n))).list
    /\ tag_block' = [block \in TestBlocks |-> BlankBlock]
    /\ attempt' = NoAttempt
    /\ WriteFrame

\* the call has ended
AttemptEnds(outcome, value) ==
    attempt' = [ran |-> TRUE,
                outcome |-> outcome,
                value |-> value,
                before_values |-> writer_values,
                before_file |-> writer_file]

\* test_write_chaos: the blocks are tested with a pattern; on "y" the first
\* value is popped and written; a written value is followed by save_vault, a
\* failed write by putting the value back
TestWriteChaos(card, writable_blocks, choice, write_ok, save_outcome) ==
    /\ IF writer_values = <<>>
       THEN /\ AttemptEnds("no_values", None)
            /\ UNCHANGED <<writer_values, writer_file, tag_block>>
       ELSE IF ~card
       THEN /\ AttemptEnds("no_card", None)
            /\ UNCHANGED <<writer_values, writer_file, tag_block>>
       ELSE IF writable_blocks = {}
       THEN /\ AttemptEnds("no_writable_block", None)
            /\ UNCHANGED <<writer_values, writer_file, tag_block>>
       ELSE IF choice # "y"
       THEN /\ AttemptEnds("declined", None)
            /\ tag_block' = Tested(tag_block, writable_blocks)
            /\ UNCHANGED <<writer_values, writer_file>>
       ELSE LET chaos_value == Head(writer_values)
                popped == Tail(writer_values)
            IN  IF write_ok
                THEN /\ AttemptEnds("written", chaos_value)
                     /\ tag_block' = [Tested(tag_block, writable_blocks) EXCEPT
                                         ![FirstBlock(writable_blocks)] = [value |-> chaos_value]]
                     /\ writer_values' = popped
                     /\ writer_file' = FileAfterSave(writer_file, popped, save_outcome)
                ELSE /\ AttemptEnds("write_failed", chaos_value)
                     /\ tag_block' = Tested(tag_block, writable_blocks)
                     /\ writer_values' = PutBack(popped, chaos_value)
                     /\ UNCHANGED writer_file
    /\ WriteFrame

InitWrite ==
    /\ writer_values = <<>>
    /\ writer_file = NoFile
    /\ tag_block = [block \in TestBlocks |-> BlankBlock]
    /\ attempt = NoAttempt

(***************************************************************************)
(* Monitoring: mobiled_nfc_guardian.py                                     *)
(***************************************************************************)
\* the monitoring threads a run of the menu may start
MaxThreads == 3

\* threading.Thread(target=self.monitor_mobiled_activity).start(): the new
\* thread is about to test the loop's condition
NewThread == [at |-> "test", passed |-> FALSE]

\* the threads that have not left monitor_mobiled_activity
Alive == {t \in 1..Len(threads) : threads[t].at # "exited"}

MonitorFrame == UNCHANGED <<vaultVars, unlockVars, integrityVars, deriveVars, fingerprintVars, bindingVars, scanVars,
               monitorOthers>>

\* start_monitoring: nothing when the flag is set; otherwise the flag is
\* set and a new thread is started and kept in monitor_thread
StartMonitoring ==
    /\ menu_pc = "menu"
    /\ Len(threads) < MaxThreads
    /\ IF ~monitoring_active
       THEN /\ monitoring_active' = TRUE
            /\ threads' = Append([t \in 1..Len(threads) |->
                                      [threads[t] EXCEPT !.passed = FALSE]],
                                 NewThread)
            /\ monitor_thread' = Len(threads) + 1
       ELSE UNCHANGED <<monitoring_active, threads, monitor_thread>>
    /\ UNCHANGED menu_pc
    /\ MonitorFrame

\* stop_monitoring, first line: the flag is cleared; with a thread in
\* monitor_thread the caller goes on to join it
StopMonitoring ==
    /\ menu_pc = "menu"
    /\ monitoring_active' = FALSE
    /\ menu_pc' = IF monitor_thread # 0 THEN "join" ELSE "menu"
    /\ UNCHANGED <<threads, monitor_thread>>
    /\ MonitorFrame

\* self.monitor_thread.join(timeout=2) returns: the thread has ended, or two
\* seconds have gone by
JoinReturns(timed_out) ==
    /\ menu_pc = "join"
    /\ timed_out \/ threads[monitor_thread].at = "exited"
    /\ menu_pc' = "menu"
    /\ UNCHANGED <<monitoring_active, threads, monitor_thread>>
    /\ MonitorFrame

\* monitor_mobiled_activity, `while self.monitoring_active`: the thread
\* enters the loop's body or leaves the function
MonitorTest(t) ==
    /\ t \in 1..Len(threads)
    /\ threads[t].at = "test"
    /\ threads' = [threads EXCEPT ![t] =
                       IF monitoring_active
                       THEN [at |-> "body", passed |-> TRUE]
                       ELSE [at |-> "exited", passed |-> FALSE]]
    /\ UNCHANGED <<monitoring_active, monitor_thread, menu_pc>>
    /\ MonitorFrame

\* monitor_mobiled_activity, the loop's body: the checks, then
\* time.sleep(10), or time.sleep(5) after an exception
MonitorBody(t) ==
    /\ t \in 1..Len(threads)
    /\ threads[t].at = "body"
    /\ threads' = [threads EXCEPT ![t].at = "test"]
    /\ UNCHANGED <<monitoring_active, monitor_thread, menu_pc>>
    /\ MonitorFrame

InitMonitor ==
    /\ monitoring_active = FALSE
    /\ monitor_thread = 0
    /\ threads = <<>>
    /\ menu_pc = "menu"

(***************************************************************************)
(* Authorization: mobiled_nfc_guardian.py                                  *)
(***************************************************************************)
\* 'expires': time.time() + 3600
AuthorizationSeconds == 3600
\* the clock is looked at every half hour, for two and a half hours
ClockStep == 1800
MaxClock == 9000

NoAuthFile == [present |-> FALSE]
NoGuardianCall == [call |-> "none"]

\* the test verify_nfc_auth and check_auth_status make of the stored record
StillAuthorized(stored_auth, now) ==
    stored_auth.authorized /\ stored_auth.expires > now

\* verify_nfc_auth: no file accepts any scan; a file whose authorization has
\* not expired accepts the stored digest; every other case falls through to
\* return False
verify_nfc_auth(file, nfc_hash, now) ==
    IF ~file.present
    THEN TRUE
    ELSE IF StillAuthorized(file, now)
    THEN file.nfc_hash = nfc_hash
    ELSE FALSE

\* check_auth_status
check_auth_status(file, now) == file.present /\ StillAuthorized(file, now)

MobiledFrame == UNCHANGED <<vaultVars, unlockVars, integrityVars, deriveVars, fingerprintVars, bindingVars, scanVars,
               mobiledOthers>>

\* time passes
ClockAdvances ==
    /\ clock + ClockStep <= MaxClock
    /\ clock' = clock + ClockStep
    /\ UNCHANGED <<auth_file, mobiled_auth>>
    /\ MobiledFrame

\* authenticate_nfc_for_mobiled: the tag is scanned and verified; a verified
\* scan writes an authorization of one hour
AuthenticateNfcForMobiled(input) ==
    /\ LET nfc_hash == InvisibleScan(input)
           verified == verify_nfc_auth(auth_file, nfc_hash, clock)
       IN  /\ auth_file' = IF verified
                           THEN [present |-> TRUE,
                                 nfc_hash |-> nfc_hash,
                                 auth_time |-> clock,
                                 expires |-> clock + AuthorizationSeconds,
                                 authorized |-> TRUE]
                           ELSE auth_file
           /\ mobiled_auth' =
                  [call |-> "authenticate_nfc_for_mobiled",
                   returned |-> verified,
                   at |-> clock,
                   expired_before |-> auth_file.present /\ ~StillAuthorized(auth_file, clock),
                   same_tag |-> /\ auth_file.present
                                /\ nfc_hash # None
                                /\ auth_file.nfc_hash = nfc_hash]
    /\ UNCHANGED clock
    /\ MobiledFrame

\* check_auth_status, as the menu and the monitoring loop call it
CheckAuthStatus ==
    /\ mobiled_auth' = [call |-> "check_auth_status",
                        returned |-> check_auth_status(auth_file, clock),
                        at |-> clock]
    /\ UNCHANGED <<auth_file, clock>>
    /\ MobiledFrame

InitMobiled ==
    /\ auth_file = NoAuthFile
    /\ clock = 0
    /\ mobiled_auth = NoGuardianCall

(***************************************************************************)
(* Device binding: usb_pack_ssh_keygen.py, location_bound_auth.py,         *)
(* secure_unified_auth.py, unified_usb_nfc_github_auth.py,                 *)
(* usb_nfc_github_auth.py                                                  *)
(***************************************************************************)
\* the pack_version a bundle file may carry: the enhanced format, the format
\* create_usb_auth_pack writes, and an older one
PackVersions == {"2.0_enhanced", "1.0", "0.9"}

NoBundle == [present |-> FALSE]
NoAuth == [ran |-> FALSE]

\* the key load_and_decrypt_pack derives from the drive's fingerprint
UsbBindingKey(usb_fingerprint) ==
    Pbkdf2("USB_SPECIFIC_BINDING", [usb_binding |-> usb_fingerprint])

\* the bundle as it is sealed on a drive: the fields the programs read
SealedBundle(device, tag, port, pack_version) ==
    LET usb_fingerprint == create_usb_fingerprint(drives[device], "ok").fingerprint
    IN  [present |-> TRUE,
         sealed_on |-> device,
         on |-> device,
         pack_version |-> pack_version,
         pack_metadata |->
             [nfc_binding_hash |-> Sha256Tag(tag),
              nfc_hash_encrypted |->
                  FernetEncrypt(UsbBindingKey(usb_fingerprint), Sha256Tag(tag))],
         validation |-> [requires_usb_fingerprint |-> usb_fingerprint],
         location_binding |->
             [hardware_fingerprint |->
                 get_usb_hardware_fingerprint(drives[device], port, "ok").fingerprint]]

\* USBPackSSHKeyGen.load_and_decrypt_pack: TRUE when the drive's fingerprint
\* is the required one and the decrypted tag digest is the scanned one
load_and_decrypt_pack(pack_container, drive, nfc_hash) ==
    LET usb_fingerprint == create_current_usb_fingerprint(drive, "ok").fingerprint
        required_fingerprint == pack_container.validation.requires_usb_fingerprint
    IN  IF usb_fingerprint # required_fingerprint
        THEN FALSE
        ELSE FernetDecrypt(UsbBindingKey(usb_fingerprint),
                           pack_container.pack_metadata.nfc_hash_encrypted) = nfc_hash

\* location_bound_auth.verify_location_binding: the drive's fingerprint is
\* the stored one
verify_location_binding(pack_data, drive, port) ==
    LET current == get_usb_hardware_fingerprint(drive, port, "ok").fingerprint
    IN  current # None /\ current = pack_data.location_binding.hardware_fingerprint

\* secure_unified_auth.verify_auth_pack: a pack of another version is
\* rejected before its other fields are read; the stored files of a copied
\* bundle are copies and keep their digests
verify_auth_pack(pack_data) ==
    IF pack_data.pack_version # "2.0_enhanced" THEN None ELSE pack_data

\* UnifiedGitHubAuth.verify_usb_auth_pack: the stored files exist and keep
\* their digests; pack_version is not read
verify_usb_auth_pack(pack_data) == pack_data

\* the version each program's bundles are written with
SupportedVersion(program) ==
    IF program = "usb_nfc_github_auth" THEN "1.0" ELSE "2.0_enhanced"

BindingFrame == UNCHANGED <<vaultVars, unlockVars, integrityVars, deriveVars,
                            fp_prev, fp_last, scanVars, extVars>>

\* the bundle is sealed on a drive
Seal(device, tag, port, pack_version) ==
    /\ bundle = NoBundle
    /\ drives[device] # NoDrive
    /\ bundle' = SealedBundle(device, tag, port, pack_version)
    /\ UNCHANGED <<drives, auth>>
    /\ BindingFrame

\* the bundle's files are copied to another drive, which is then the one
\* presented
CopyBundle(device) ==
    /\ bundle # NoBundle
    /\ bundle.on # device
    /\ drives[device] # NoDrive
    /\ bundle' = [bundle EXCEPT !.on = device]
    /\ UNCHANGED <<drives, auth>>
    /\ BindingFrame

\* a run ends
EndRun(program, passed) ==
    /\ auth' = [ran |-> TRUE,
                program |-> program,
                device |-> bundle.on,
                sealed_on |-> bundle.sealed_on,
                pack_version |-> bundle.pack_version,
                result |-> IF passed THEN "Authenticated" ELSE "Failed"]
    /\ UNCHANGED <<drives, bundle>>
    /\ BindingFrame

\* USBPackSSHKeyGen.run_complete_ssh_keygen
UsbPackSshKeygenRun(input) ==
    /\ bundle # NoBundle
    /\ LET nfc_hash == InvisibleScan(input)
       IN  EndRun("usb_pack_ssh_keygen",
                  /\ nfc_hash # None
                  /\ load_and_decrypt_pack(bundle, drives[bundle.on], nfc_hash))

\* location_bound_auth.main
LocationBoundRun(port, input) ==
    /\ bundle # NoBundle
    /\ EndRun("location_bound_auth",
              /\ verify_location_binding(bundle, drives[bundle.on], port)
              /\ InvisibleScan(input) # None)

\* secure_unified_auth.main: the pack is verified, the tag is scanned and
\* compared; the drive is not fingerprinted
SecureUnifiedRun(input) ==
    /\ bundle # NoBundle
    /\ LET pack_data == verify_auth_pack(bundle)
           nfc_hash == InvisibleScan(input)
       IN  EndRun("secure_unified_auth",
                  /\ pack_data # None
                  /\ nfc_hash # None
                  /\ nfc_hash = pack_data.pack_metadata.nfc_binding_hash)

\* UnifiedGitHubAuth.create_unified_github_auth
UnifiedGithubRun(input) ==
    /\ bundle # NoBundle
    /\ LET pack_data == verify_usb_auth_pack(bundle)
           nfc_hash == InvisibleScan(input)
       IN  EndRun("unified_usb_nfc_github_auth",
                  /\ nfc_hash # None
                  /\ nfc_hash = pack_data.pack_metadata.nfc_binding_hash)

\* USBNFCGitHubAuth: the scan, then validate_usb_pack
UsbNfcGithubRun(input) ==
    /\ bundle # NoBundle
    /\ LET nfc_hash == InvisibleScan(input)
       IN  EndRun("usb_nfc_github_auth",
                  /\ nfc_hash # None
                  /\ validate_usb_pack(bundle, nfc_hash) # None)

InitBinding ==
    /\ bundle = NoBundle
    /\ auth = NoAuth

(***************************************************************************)
(* Sealing and verifying: create_usb_auth_pack.py, usb_fraud_detection.py  *)
(***************************************************************************)
\* time.time() at enrollment: a float, its whole seconds and its fraction
CreationTimes == {[float |-> <<"1700000000", "0">>],
                  [float |-> <<"1700000000", "1234567">>]}

\* a float written with two digits of its fraction
FloatFixed2(x) ==
    [number |-> <<x.float[1], IF x.float[2] = "0" THEN "0" ELSE "12">>]
\* float.__repr__, which json.dump writes: the shortest text that reads back
\* as the same float
FloatRepr(x) == [number |-> x.float]
\* float(text), which json.load applies to a number with a fraction
ParseFloat(text) == [float |-> text.number]
\* int.__repr__ and int(text)
IntRepr(n) == [digits |-> n]
ParseInt(text) == text.digits

\* create_auth_pack: the pack_data dictionary with its creation time
TimedPackData(tag, ambient, creation_time) ==
    [UsbNfcPackData(tag, ambient) EXCEPT !.pack_metadata.creation_time = creation_time]

\* json.dump(pack_data, f, indent=2): strings are quoted, the float is
\* written by its repr
JsonDumpPack(pack_data) ==
    [layout |-> "indent=2",
     text |-> [pack_data EXCEPT !.pack_metadata.creation_time = FloatRepr(@)]]
\* json.load of the pack file
JsonLoadPack(file) ==
    [file.text EXCEPT !.pack_metadata.creation_time = ParseFloat(@)]

\* json.dump(integrity_record, f, indent=2) and json.load of it
JsonDumpIntegrity(integrity_record) ==
    [layout |-> "indent=2",
     text |-> [integrity_record EXCEPT !.pack_size = IntRepr(@)]]
JsonLoadIntegrity(file) ==
    [file.text EXCEPT !.pack_size = ParseInt(@)]

NoSealedFiles == [present |-> FALSE]
NoCheck == [ran |-> FALSE]
SealTouchFields == {"ambient_audio_hash", "chaos_entropy"}

SealFrame == UNCHANGED <<vaultVars, unlockVars, integrityVars, deriveVars, fingerprintVars, bindingVars, scanVars,
               sealOthers>>

\* create_auth_pack: a failed scan writes nothing; otherwise the pack file is
\* written and create_integrity_protection writes the integrity file from
\* the same dictionary
CreateAuthPack(input, ambient, creation_time) ==
    /\ IF InvisibleScan(input) = None
       THEN UNCHANGED seal_disk
       ELSE LET pack_data == TimedPackData(input, ambient, creation_time)
            IN  seal_disk' =
                    [present |-> TRUE,
                     pack_file |-> JsonDumpPack(pack_data),
                     integrity_file |->
                         JsonDumpIntegrity(calculate_pack_integrity(pack_data)),
                     touched |-> FALSE]
    /\ seal_check' = [ran |-> FALSE, created |-> InvisibleScan(input) # None]
    /\ SealFrame

\* a field of the pack file is changed after the sealing
TouchPackFile(field) ==
    /\ seal_disk.present
    /\ seal_disk.pack_file.text[field] # Tampered(seal_disk.pack_file.text[field])
    /\ seal_disk' = [seal_disk EXCEPT !.pack_file.text[field] = Tampered(@),
                                      !.touched = TRUE]
    /\ UNCHANGED seal_check
    /\ SealFrame

\* verify_pack_integrity(usb_path): a missing file fails; both files are
\* loaded, the integrity is recomputed from the loaded pack and compared
VerifyPackIntegrity ==
    /\ seal_check' =
           [ran |-> TRUE,
            present |-> seal_disk.present,
            touched |-> seal_disk.present /\ seal_disk.touched,
            valid |-> /\ seal_disk.present
                      /\ verify_pack_integrity(JsonLoadPack(seal_disk.pack_file),
                                               JsonLoadIntegrity(seal_disk.integrity_file))]
    /\ UNCHANGED seal_disk
    /\ SealFrame

InitSeal ==
    /\ seal_disk = NoSealedFiles
    /\ seal_check = NoCheck

(***************************************************************************)
(* The pack file's writers: create_usb_auth_pack.py,                       *)
(* enhanced_usb_auth_pack.py, update_auth_pack_format.py,                  *)
(* add_location_binding.py; and a reader, secure_unified_auth.py           *)
(***************************************************************************)
\* the programs that scan a tag and write mobileshield_auth_pack.json anew
EnrollmentPrograms == {"create_usb_auth_pack", "enhanced_usb_auth_pack"}

\* what datetime.now().isoformat() may give
Clock == {"t1", "t2"}

\* what add_location_binding's system_profiler query may end in
BindingOutcomes == {"device", "fallback", "error"}

NoPackFile == [present |-> FALSE]
NoPackRun == [program |-> "none", result |-> "none"]

\* the pack_data create_auth_pack and create_enhanced_auth_pack write: the
\* fields the tools and the reader use; a missing key is None (FALSE for
\* location_bound)
CreatedPack(program, tag) ==
    [present |-> TRUE,
     pack_version |-> IF program = "create_usb_auth_pack" THEN "1.0" ELSE "2.0_enhanced",
     pack_metadata |->
         [nfc_binding_hash |-> Sha256Tag(tag),
          pack_type |-> IF program = "create_usb_auth_pack"
                        THEN "github_ssh_authentication"
                        ELSE "github_ssh_authentication_enhanced",
          location_bound |-> FALSE],
     stored_files |-> IF program = "create_usb_auth_pack"
                      THEN None
                      ELSE [ambient_audio_file |-> "captured", emf_data_file |-> "captured"],
     location_binding |-> None]

\* update_auth_pack_format: the enhanced pack built around the old pack's
\* tag digest, the largest .wav file and a made-up EMF file
enhanced_pack(old_pack) ==
    [present |-> TRUE,
     pack_version |-> "2.0_enhanced",
     pack_metadata |->
         [nfc_binding_hash |-> old_pack.pack_metadata.nfc_binding_hash,
          pack_type |-> "github_ssh_authentication_enhanced",
          location_bound |-> FALSE],
     stored_files |-> [ambient_audio_file |-> "largest_wav",
                       emf_data_file |-> "emf_fallback"],
     location_binding |-> None]

\* add_location_binding: the loaded pack with the binding fields set
location_bound_pack(pack_data, outcome, now) ==
    [pack_data EXCEPT
        !.location_binding = [hardware_fingerprint |->
                                  [fingerprint_sha256 |-> <<outcome, now>>],
                              binding_timestamp |-> now],
        !.pack_metadata.location_bound = TRUE]

PackfileFrame == UNCHANGED <<vaultVars, unlockVars, integrityVars, deriveVars, fingerprintVars, bindingVars, scanVars,
               packfileOthers>>

\* a run of a program on the drive ends
PackRunEnds(program, result, files) ==
    /\ usb_files' = files
    /\ pack_run' = [program |-> program, result |-> result]

\* create_auth_pack / create_enhanced_auth_pack: the tag is scanned and the
\* pack file is written
CreateAuthPackRun(program, input) ==
    /\ IF InvisibleScan(input) = None
       THEN PackRunEnds(program, "no_scan", usb_files)
       ELSE PackRunEnds(program, "created",
                        [usb_files EXCEPT !.pack = CreatedPack(program, input)])
    /\ PackfileFrame

\* update_auth_pack_format: the pack file is renamed to the backup name and
\* the enhanced pack is written in its place; no tag is scanned
UpdateAuthPackFormatRun(audio_found) ==
    /\ IF ~audio_found
       THEN PackRunEnds("update_auth_pack_format", "no_audio", usb_files)
       ELSE IF ~usb_files.pack.present
       THEN PackRunEnds("update_auth_pack_format", "raised", usb_files)
       ELSE PackRunEnds("update_auth_pack_format", "updated",
                        [usb_files EXCEPT !.pack = enhanced_pack(usb_files.pack),
                                          !.backup = usb_files.pack])
    /\ PackfileFrame

\* add_location_binding: the pack is copied to the pre-binding name and
\* written back with the binding; no tag is scanned
AddLocationBindingRun(outcome, now) ==
    /\ IF ~usb_files.pack.present
       THEN PackRunEnds("add_location_binding", "no_pack", usb_files)
       ELSE IF outcome = "error"
       THEN PackRunEnds("add_location_binding", "no_fingerprint", usb_files)
       ELSE PackRunEnds("add_location_binding", "bound",
                        [usb_files EXCEPT
                            !.pack = location_bound_pack(usb_files.pack, outcome, now),
                            !.pre_binding = usb_files.pack])
    /\ PackfileFrame

\* secure_unified_auth.main: the pack is read and verified, the tag is
\* scanned and compared; keys are written under ~/.ssh
SecureUnifiedMainRun(input) ==
    /\ LET pack_data == IF usb_files.pack.present
                        THEN verify_auth_pack(usb_files.pack)
                        ELSE None
           nfc_hash == InvisibleScan(input)
           passed == /\ pack_data # None
                     /\ nfc_hash # None
                     /\ nfc_hash = pack_data.pack_metadata.nfc_binding_hash
       IN  PackRunEnds("secure_unified_auth",
                       IF passed THEN "Authenticated" ELSE "Failed",
                       usb_files)
    /\ PackfileFrame

InitPackfile ==
    /\ usb_files = [pack |-> NoPackFile, backup |-> NoPackFile, pre_binding |-> NoPackFile]
    /\ pack_run = NoPackRun

Init ==
    InitVault /\ InitUnlock /\ InitIntegrity /\ InitDerive /\ InitFingerprint /\ InitBinding
    /\ InitScan /\ InitSession /\ InitLog
    /\ InitRadio /\ InitLoad /\ InitPackfile /\ InitSeal
    /\ InitWrite /\ InitMonitor /\ InitMobiled

\* one process at a time owns the vault: the generator, restarted at will
NextVault ==
    \/ Restart(1)
    \/ \E captured \in 0..NumFrequencies : GenerateChaosValue(1, captured)
    \/ \E outcome \in SaveOutcomes : SaveVault(1, outcome)
    \/ LoadVault(1)
    \/ \E outcome \in SaveOutcomes : GetNextValue(1, outcome)
    \/ \E outcome \in SaveOutcomes : ClearVault(1, outcome)

\* several processes on the same vault file, every write succeeding
NextVaultConc ==
    \E p \in Procs :
        \/ Restart(p)
        \/ GenerateChaosValue(p, NumFrequencies)
        \/ SaveVault(p, "ok")
        \/ LoadVault(p)
        \/ GetNextValue(p, "ok")

\* the dual-scan authentication scripts, each run against the bundle its own
\* enrollment script wrote
NextUnlock ==
    \/ \E kind \in DualScanKinds, tag \in Tags, ambient \in Ambients, device \in Devices :
           Enroll(kind, tag, ambient, device)
    \/ \E field \in TamperFields(pack.kind) : Tamper(field)
    \/ DualStart
    \/ \E input \in ScanInputs : DualScan1(input)
    \/ \E input \in ScanInputs : DualScan2(input)
    \/ ZkStart
    \/ \E input \in ScanInputs : ZkScan1(input)
    \/ \E input \in ScanInputs : ZkScan2(input)
    \/ RealStart
    \/ \E input \in ScanInputs : RealScan1(input)
    \/ \E input \in ScanInputs : RealScan2(input)
    \/ CompleteStart
    \/ \E input \in ScanInputs : CompleteScan1(input)
    \/ \E input \in ScanInputs, keygen_ok \in BOOLEAN : CompleteScan2(input, keygen_ok)
    \/ \E device \in Devices : GithubStart(device)
    \/ \E input \in ScanInputs : GithubScan1(input)
    \/ \E input \in ScanInputs : GithubScan2(input)

\* the single-scan USB pack authentication against a sealed pack
NextUsbAuth ==
    \/ \E tag \in Tags, ambient \in Ambients : UsbNfcEnroll(tag, ambient)
    \/ \E field \in UsbNfcTamperFields : UsbNfcTamper(field)
    \/ \E result \in {"tab", "not-json"} : UsbNfcFlipLayout(result)
    \/ \E field \in UsbNfcIntegrityFields : UsbNfcFlipIntegrity(field)
    \/ UsbNfcRestore
    \/ UsbNfcVerify
    \/ UsbNfcStart
    \/ \E input \in ScanInputs : UsbNfcScan(input)

\* the key generators, run again and again on factors of the operator's choice
NextDerive ==
    \/ \E tag \in Tags, ambient \in Ambients, os_random \in OsRandoms :
           GenerateGithubSshKeys(tag, ambient, os_random)
    \/ \E tag1 \in Tags, tag2 \in Tags, ambient \in Ambients, os_random \in OsRandoms :
           GenerateSshKeyForGithub(tag1, tag2, ambient, os_random)

\* drives are plugged in, reformatted and fingerprinted
NextFingerprint ==
    \/ \E device \in Devices : \E serial_number \in SerialNumbers(device) :
           Attach(device, serial_number)
    \/ \E device \in Devices, volume_name \in VolumeNames :
           Reformat(device, volume_name, "ExFAT")
    \/ \E device \in Devices, port \in Ports : HardwareFingerprint(device, port)
    \/ \E device \in Devices, outcome \in DiskutilOutcomes :
           OriginFingerprint(device, outcome)
    \/ \E device \in Devices, outcome \in DiskutilOutcomes :
           KeygenFingerprint(device, outcome)
    \/ \E device \in Devices, port \in Ports, outcome \in ProfilerOutcomes :
           LocationFingerprint(device, port, outcome)

\* bundles are sealed, copied between drives and presented to the programs
NextBinding ==
    \/ \E device \in Devices : \E serial_number \in SerialNumbers(device) :
           Attach(device, serial_number)
    \/ \E device \in Devices, tag \in Tags, port \in Ports, pack_version \in PackVersions :
           Seal(device, tag, port, pack_version)
    \/ \E device \in Devices : CopyBundle(device)
    \/ \E input \in ScanInputs : UsbPackSshKeygenRun(input)
    \/ \E port \in Ports, input \in ScanInputs : LocationBoundRun(port, input)
    \/ \E input \in ScanInputs : SecureUnifiedRun(input)
    \/ \E input \in ScanInputs : UnifiedGithubRun(input)
    \/ \E input \in ScanInputs : UsbNfcGithubRun(input)

\* a scan routine is entered, waits, and returns
NextScan ==
    \/ \E routine \in ScanRoutines : StartScan(routine)
    \/ Tick
    \/ \E input \in Tags \cup {""} : LineArrives(input)
    \/ AlarmFires
    \/ Interrupt
    \/ ScanDone

\* a scan routine is called and reads its line
NextSession ==
    \/ \E routine \in SessionRoutines, tag \in Tags : BeginScan(routine, tag)
    \/ TypeChar
    \/ Terminator
    \/ ScanTimesOut
    \/ ScanCancelled
    \/ InputError
    \/ LateAlarm
    \/ NextScanCall

\* the derivation functions are called and write their output
NextLog ==
    \/ \E tag \in Tags, ambient \in Ambients, device \in Devices :
           AssemblePassphraseCall(tag, ambient, device)
    \/ \E enrolled \in Tags, tag \in Tags, ambient \in Ambients, device \in Devices :
           UnlockUsbCall(enrolled, tag, ambient, device)
    \/ \E enrolled \in Tags, tag1 \in Tags, tag2 \in Tags, ambient \in Ambients,
          device \in Devices :
           GithubPasskeyCall(enrolled, tag1, tag2, ambient, device)

\* the receiver comes and goes while the collectors are used
NextRadio ==
    \/ \E present \in BOOLEAN : PlugReceiver(present)
    \/ NewCollector
    \/ \E capture_ok \in BOOLEAN : CollectRfNoise(capture_ok)
    \/ InitializeSdr
    \/ \E capture_ok \in BOOLEAN : CollectRfEntropy(capture_ok)
    \/ \E captured \in 0..NumFrequencies : ChaosFromRadio(captured)

\* the vault file changes under the objects that load it
NextLoad ==
    \/ \E class \in LoaderClasses : NewLoader(class)
    \/ \E n \in 0..MaxStored : VaultWritten(n)
    \/ \E file \in {CorruptFile, UnreadableFile, NoFile} : VaultDamaged(file)
    \/ LoadVaultCall
    \/ TakeValue

\* the pack file is written, converted, bound and presented
NextPackfile ==
    \/ \E program \in EnrollmentPrograms, input \in ScanInputs :
           CreateAuthPackRun(program, input)
    \/ \E audio_found \in BOOLEAN : UpdateAuthPackFormatRun(audio_found)
    \/ \E outcome \in BindingOutcomes, now \in Clock : AddLocationBindingRun(outcome, now)
    \/ \E input \in ScanInputs : SecureUnifiedMainRun(input)

\* packs are sealed, touched and verified
NextSeal ==
    \/ \E input \in ScanInputs, ambient \in Ambients, creation_time \in CreationTimes :
           CreateAuthPack(input, ambient, creation_time)
    \/ \E field \in SealTouchFields : TouchPackFile(field)
    \/ VerifyPackIntegrity

\* the writer is started on a vault and asked to write, again and again
NextWrite ==
    \/ \E n \in 1..MaxStored : WriterStart(n)
    \/ \E card \in BOOLEAN, writable_blocks \in SUBSET TestBlocks, choice \in {"y", "n"},
          write_ok \in BOOLEAN, save_outcome \in SaveOutcomes :
           TestWriteChaos(card, writable_blocks, choice, write_ok, save_outcome)

\* the menu's thread starts and stops the monitoring while the monitoring
\* threads run
NextMonitor ==
    \/ StartMonitoring
    \/ StopMonitoring
    \/ \E timed_out \in BOOLEAN : JoinReturns(timed_out)
    \/ \E t \in 1..MaxThreads : MonitorTest(t)
    \/ \E t \in 1..MaxThreads : MonitorBody(t)

\* tags are scanned for mobiled and the status is asked while time passes
NextMobiled ==
    \/ ClockAdvances
    \/ \E input \in ScanInputs : AuthenticateNfcForMobiled(input)
    \/ CheckAuthStatus

Spec == Init /\ [][NextVault]_vars
SpecVaultConc == Init /\ [][NextVaultConc]_vars
SpecUnlock == Init /\ [][NextUnlock]_vars
SpecUsbAuth == Init /\ [][NextUsbAuth]_vars
SpecDerive == Init /\ [][NextDerive]_vars
SpecFingerprint == Init /\ [][NextFingerprint]_vars
SpecBinding == Init /\ [][NextBinding]_vars
SpecScan == Init /\ [][NextScan]_vars
SpecSession == Init /\ [][NextSession]_vars
SpecLog == Init /\ [][NextLog]_vars
SpecRadio == Init /\ [][NextRadio]_vars
SpecLoad == Init /\ [][NextLoad]_vars
SpecPackfile == Init /\ [][NextPackfile]_vars
SpecSeal == Init /\ [][NextSeal]_vars
SpecWrite == Init /\ [][NextWrite]_vars
SpecMonitor == Init /\ [][NextMonitor]_vars
SpecMobiled == Init /\ [][NextMobiled]_vars

(***************************************************************************)
(* Chaos Vault claims                                                      *)
(***************************************************************************)
Min(a, b) == IF a <= b THEN a ELSE b

\* C1: from a list of N values and with no refill in between, the first N
\* get_next_value calls each return a value and every later call returns
\* EMPTY: the number of values returned is min(calls, N).
C1_SingleUse ==
    \A p \in Procs :
        /\ got[p] = Min(calls[p], base[p])
        /\ (0 < calls[p] /\ calls[p] <= base[p]) => lastRet[p] \in Values
        /\ calls[p] > base[p] => lastRet[p] = EMPTY

\* a list of at least two values was consumed to the end and the next call
\* returned EMPTY
C1_Witness ==
    /\ base[1] >= 2
    /\ calls[1] = base[1] + 1
    /\ got[1] = base[1]
    /\ lastRet[1] = EMPTY

\* C2: get_next_value returns a value only when the write of the reduced
\* list succeeded.
C2_FailClosed ==
    \A p \in Procs : lastRet[p] \in Values => lastSaveOk[p]

\* C3: no stored value is handed out by two get_next_value calls, over any
\* sequence of generate, consume, save, load and restart.
C3_NoDoubleIssue ==
    \A i, j \in 1..Len(issued) : i # j => issued[i][2] # issued[j][2]

\* C4: no value is consumed by two different processes working on the same
\* vault file.
C4_ExclusiveConsume ==
    \A i, j \in 1..Len(issued) :
        issued[i][2] = issued[j][2] => issued[i][1] = issued[j][1]

(***************************************************************************)
(* Dual-scan unlock claims                                                 *)
(***************************************************************************)
\* the states of the unlock protocol
AmbientUnlocked ==
    /\ pc = "scan2"
    /\ scans = 1
    /\ nfc_hash1 = Sha256Tag(enrolled_tag)
    /\ unlocked # None
Assembled == pc = "done" /\ secret # None
Failed == pc = "done" /\ secret = None

\* C5: a run becomes Assembled only by a step taken in AmbientUnlocked, and
\* that step keeps the first scan and the data it unlocked.
C5_AssembledOnlyFromAmbientUnlocked ==
    [][(Assembled' /\ ~Assembled) =>
          (AmbientUnlocked /\ nfc_hash1' = nfc_hash1 /\ unlocked' = unlocked)]_vars

\* a run of unlock_dual_system was assembled after two scans
C5_Witness ==
    /\ used_pack.kind = "dual"
    /\ Assembled
    /\ scans = 2
    /\ nfc_hash1 = Sha256Tag(enrolled_tag)

\* C6: when the first scan reads a tag other than the enrolled one, the run
\* is Failed, the second scan was never requested and nothing was unlocked
\* or derived.
C6_WrongFirstTagFails ==
    (/\ pc \in {"scan2", "done"}
     /\ nfc_hash1 # None
     /\ nfc_hash1 # Sha256Tag(enrolled_tag))
        => (Failed /\ scans = 1 /\ nfc_hash2 = None /\ unlocked = None)

\* tag B was presented at the first scan of a bundle enrolled with tag A
C6_Witness ==
    /\ used_pack = pack
    /\ pack.kind \in {"dual", "real", "complete"}
    /\ enrolled_tag = "TAG-A"
    /\ nfc_hash1 = Sha256Tag("TAG-B")
    /\ Failed
    /\ scans = 1

\* C7: a run is in AmbientUnlocked only when the digest stored in the pack
\* equals the digest of the first scan and the unlocked ambient data.
C7_StoredDigestChecked ==
    (pc = "scan2" /\ used_pack.kind \in {"zk", "real"}) =>
        (IF used_pack.kind = "zk"
         THEN used_pack.encrypted_hash = Sha256Pair(nfc_hash1, Sha256Bytes(unlocked))
         ELSE used_pack.encrypted_ambient_hash
                  = Sha256Pair(nfc_hash1, Sha256Bytes(unlocked)))

\* C8: a run is Assembled only when the second scan read the enrolled tag.
C8_SecondScanVerified ==
    (Assembled /\ used_pack.kind \in DualScanKinds)
        => nfc_hash2 = Sha256Tag(enrolled_tag)

\* a step of the run has failed
StepFailed ==
    /\ pc # "idle"
    /\ \/ scans >= 1 /\ unlocked = None
       \/ scans = 2 /\ secret = None
       \/ Failed

\* the locals of a run before its first scan
FreshRun ==
    /\ scans = 0
    /\ nfc_hash1 = None
    /\ nfc_hash2 = None
    /\ unlocked = None
    /\ secret = None

\* C9: once a step of a run has failed the run stays Failed: no further scan
\* is taken and nothing is unlocked or derived, until a new run begins with
\* no scan carried over.
C9_NoRetry ==
    [][StepFailed =>
          \/ Failed' /\ UNCHANGED <<nfc_hash1, nfc_hash2, unlocked, secret, scans>>
          \/ FreshRun']_vars

\* a run of unlock_dual_system failed at its first scan and returned
C9_Witness ==
    /\ used_pack.kind = "dual"
    /\ Failed
    /\ scans = 1
    /\ unlocked = None

\* the bundle the run loaded is as enrollment with the enrolled tag wrote it
UsedPackIntact ==
    /\ used_pack.kind \in DualScanKinds
    /\ \E ambient \in Ambients, device \in Devices :
          used_pack = EnrolledPack(used_pack.kind, enrolled_tag, ambient, device)

\* C14: over the bundle as it was enrolled, a first scan of the enrolled tag
\* leads to AmbientUnlocked and a second scan of the enrolled tag from there
\* leads to Assembled (create_ssh_key_with_dual_nfc aside, whose ssh-keygen
\* call may fail).
C14_EnrolledTagTwiceAssembles ==
    [][(UsedPackIntact /\ used_pack.kind # "complete") =>
          /\ (pc = "scan1" /\ scans' = 1 /\ nfc_hash1' = Sha256Tag(enrolled_tag))
                 => AmbientUnlocked'
          /\ (AmbientUnlocked /\ scans' = 2 /\ nfc_hash2' = Sha256Tag(enrolled_tag))
                 => Assembled']_vars

\* unlock_dual_system handed out the password vault after two scans of the
\* enrolled tag
C14_Witness ==
    /\ UsedPackIntact
    /\ used_pack.kind = "dual"
    /\ nfc_hash2 = Sha256Tag(enrolled_tag)
    /\ secret = PasswordVault

(***************************************************************************)
(* Integrity claims                                                        *)
(***************************************************************************)
\* C10: no key material is derived from a pack that does not verify against
\* its integrity record.
C10_TamperedNeverDerived ==
    (used_pack.kind = "usbnfc" /\ Assembled)
        => verify_pack_integrity(used_pack.data, used_pack.integrity)

\* C11: a verification of a bundle whose files differ in any byte from the
\* files as they were sealed reports a mismatch.
C11_AnyFlipDetected ==
    (checked_file # NoPack /\ checked_file # sealed_file) => ~integrity_valid

\* C12: once a verification has reported a mismatch, no verification is
\* valid until the bundle is enrolled again.
C12_MismatchIsPermanent ==
    (checked_file # NoPack /\ mismatch_seen) => ~integrity_valid

(***************************************************************************)
(* Key derivation claims                                                   *)
(***************************************************************************)
\* C13: two runs of the same key generator on the same two tag digests and
\* the same ambient data yield the same seed and the same key pair.
C13_DeriveDeterministic ==
    \A i, j \in 1..Len(derived) :
        (derived[i].generator = derived[j].generator
         /\ derived[i].factors = derived[j].factors)
            => (derived[i].key_seed = derived[j].key_seed
                /\ derived[i].private_key = derived[j].private_key)

(***************************************************************************)
(* Device binding claims                                                   *)
(***************************************************************************)
\* C15: an authentication run over a bundle that was copied to a drive other
\* than the one it was sealed on ends in Failed.
C15_CopiedBundleFails ==
    (/\ auth # NoAuth
     /\ auth.program \in {"usb_pack_ssh_keygen", "location_bound_auth",
                          "secure_unified_auth"}
     /\ auth.device # auth.sealed_on)
        => auth.result = "Failed"

\* the two last fingerprint calls are full-confidence calls of one function
SameFunctionTwice(fns) ==
    /\ fp_prev # NoFingerprint
    /\ fp_last # NoFingerprint
    /\ fp_prev.fn = fp_last.fn
    /\ fp_last.fn \in fns
    /\ fp_prev.outcome = "ok"
    /\ fp_last.outcome = "ok"

\* C16: two fingerprints of the same physical drive are equal, whether or
\* not the drive was reformatted in between.
C16_SameAcrossReformat ==
    (/\ SameFunctionTwice({"hardware", "origin", "keygen"})
     /\ fp_prev.device = fp_last.device)
        => fp_prev.result.fingerprint = fp_last.result.fingerprint

\* C17: the fingerprints of two distinct physical drives differ, also when
\* both present the same volume name.
C17_DistinctDrivesDiffer ==
    (/\ SameFunctionTwice({"hardware", "location"})
     /\ fp_prev.device # fp_last.device)
        => fp_prev.result.fingerprint # fp_last.result.fingerprint

\* C18: a fingerprint call whose attribute enumeration failed raises nothing
\* and returns a fingerprint that its caller can see is a fallback.
C18_FallbackFlagged ==
    (/\ fp_last # NoFingerprint
     /\ fp_last.fn \in {"origin", "keygen", "location"}
     /\ fp_last.outcome # "ok")
        => /\ ~fp_last.result.raised
           /\ fp_last.result.fingerprint # None
           /\ fp_last.result.flagged

\* C19: a run over a bundle whose pack_version is not the one the program
\* supports ends in Failed.
C19_OtherVersionRejected ==
    (/\ auth # NoAuth
     /\ auth.program \in {"secure_unified_auth", "unified_usb_nfc_github_auth",
                          "usb_nfc_github_auth"}
     /\ auth.pack_version # SupportedVersion(auth.program))
        => auth.result = "Failed"

(***************************************************************************)
(* Scan claims                                                             *)
(***************************************************************************)
\* C20: no scan routine is still blocked in its read after the timeout has
\* passed.
C20_ScanNeverBlocksPastTimeout ==
    scanner.state = "reading" => scanner.elapsed <= ScanTimeout

\* C21: after a scan has returned, the characters of the scanned line are
\* neither in what it returned nor in what the console has shown.
C21_RawValueNeverShown ==
    (session.state = "returned" /\ session.routine \in
         {"invisible_scan_simple", "real_ambient_zero_knowledge_auth",
          "complete_zero_knowledge_workflow"})
        => /\ \A shown \in session.console : "raw" \notin DOMAIN shown
           /\ "raw" \notin DOMAIN session.result

\* C28: when a scan routine has returned, its alarm is no longer pending.
C28_AlarmDisarmedOnReturn ==
    (session.state = "returned" /\ session.routine \in
         {"real_ambient_zero_knowledge_auth", "secure_unified_auth",
          "location_bound_auth", "zero_knowledge_nfc_auth"})
        => ~session.alarm

\* C22: no line that is logged or printed shows any part of a factor, of an
\* intermediate digest or of a derived secret.
C22_NoSecretInOutput ==
    \A i \in 1..Len(emitted) : \A line \in emitted[i].lines : line.shown = Nothing

\* C23: a collection call made while the receiver is missing, or whose
\* capture failed, still hands entropy to its caller.
C23_FallbackOnReceiverAbsence ==
    (/\ radio.last # NoRadioCall
     /\ radio.last.call # "initialize_sdr"
     /\ (~radio.last.receiver \/ ~radio.last.capture_ok))
        => radio.last.result.outcome = "entropy"

\* C24: after a load of a corrupt or unreadable vault file the object holds
\* no values.
C24_FailedLoadExposesNothing ==
    loader.ended = "load_failed" => loader.list = <<>>

(***************************************************************************)
(* Pack file claims                                                        *)
(***************************************************************************)
\* C25: the pack file on the drive is written at enrollment and by nothing
\* else: a step that changes it is a run of an enrollment program; neither an
\* authentication attempt nor any other program modifies it.
C25_BundleWrittenOnlyByEnrollment ==
    [][usb_files'.pack # usb_files.pack =>
          pack_run'.program \in EnrollmentPrograms]_vars

C27_ValueLeavesOnlyAfterWrite ==
    attempt.ran =>
        /\ (writer_values # attempt.before_values \/ writer_file # attempt.before_file)
               => attempt.outcome = "written"
        /\ attempt.outcome = "write_failed"
               => /\ writer_values = attempt.before_values
                  /\ writer_file = attempt.before_file

\* a write failed on a writer holding two values
C27_Witness ==
    /\ attempt.ran
    /\ attempt.outcome = "write_failed"
    /\ Len(writer_values) = 2
    /\ writer_file = VaultData(writer_values)

(***************************************************************************)
(* Mobiled guardian claims                                                 *)
(***************************************************************************)
\* C29: however start_monitoring, stop_monitoring and the monitoring loop
\* interleave, at most one thread is monitoring: no two threads have both
\* found monitoring_active set since the last start and stayed in the loop.
C29_AtMostOneMonitor ==
    Cardinality({t \in Alive : threads[t].passed}) <= 1

\* C30: once an authorization has expired, a scan of the tag that was
\* authorized before is granted a new authorization:
\* authenticate_nfc_for_mobiled returns True.
C30_ExpiredAuthorizationRenews ==
    (/\ mobiled_auth.call = "authenticate_nfc_for_mobiled"
     /\ mobiled_auth.expired_before
     /\ mobiled_auth.same_tag)
        => mobiled_auth.returned

=============================================================================
